---- MODULE Spec2Model ----
(***************************************************************************)
(* Model of backend/advanced_smart_cache.py: the response cache and its    *)
(* keyword similarity calculator.                                          *)
(*                                                                         *)
(* A Python str is a sequence of one-character strings.  A dict is a       *)
(* function whose DOMAIN is the set of keys present.  The cache_entry      *)
(* dicts built by save_questions are objects shared between                *)
(* questions_cache and similar_pool, so they live in a heap (self.heap,    *)
(* indexed by object identity) and both containers hold identities.        *)
(* datetime.now() is the clock reading `now`; a handler runs at one        *)
(* reading and the clock advances between handlers (Tick).                 *)
(***************************************************************************)
EXTENDS Integers, Sequences, FiniteSets, TLC

(* ------------------------------ bounds -------------------------------- *)
MaxSteps == 4       \* entries saved + lookups counted + clock ticks in a run
MaxPoolSteps == 5   \* the same, in the runs that fill the pool
MaxHotSteps == 8    \* the same, in the runs that read one entry many times
MaxServiceSteps == 4 \* calls and clock ticks in a run of the service's calls
MaxNormSteps == 3    \* saves, lookups and clock ticks in a run on look-alike jobs
MaxKeySteps == 3     \* analyses stored + analysis lookups + clock ticks in a run
MaxAnalysisSteps == 4 \* calls and clock ticks in a run that uses both caches
MaxScenarioSteps == 4 \* saves, lookups and clock ticks in a run of the scenario
MaxRequests == 5    \* get_smart_response calls in a run that fills the counters
MaxFetchSteps == 3  \* requests for questions and clock ticks in a run
MaxThreadSteps == 2 \* entries saved and clock ticks before two threads call

(* ------------------------------ str ----------------------------------- *)
UpperCase == <<"A","B","C","D","E","F","G","H","I","J","K","L","M",
               "N","O","P","Q","R","S","T","U","V","W","X","Y","Z">>
LowerCase == <<"a","b","c","d","e","f","g","h","i","j","k","l","m",
               "n","o","p","q","r","s","t","u","v","w","x","y","z">>
Whitespace == {" ", "\t", "\n", "\r"}

\* str.lower() on one character
LowerChar(c) ==
  IF \E i \in 1..26 : UpperCase[i] = c
  THEN LowerCase[CHOOSE i \in 1..26 : UpperCase[i] = c]
  ELSE c

\* str.lower()
lower(s) == [i \in 1..Len(s) |-> LowerChar(s[i])]

\* str.strip(): drops leading and trailing whitespace
strip(s) ==
  LET keep == {i \in 1..Len(s) : s[i] \notin Whitespace}
  IN IF keep = {} THEN <<>>
     ELSE LET lo == CHOOSE i \in keep : \A j \in keep : i <= j
              hi == CHOOSE i \in keep : \A j \in keep : j <= i
          IN SubSeq(s, lo, hi)

\* s[:n]
Take(s, n) == IF Len(s) <= n THEN s ELSE SubSeq(s, 1, n)

\* kw in text
Contains(kw, text) ==
  \E i \in 1..(Len(text) - Len(kw) + 1) : SubSeq(text, i, i + Len(kw) - 1) = kw

(* ---------------------- SimpleSimilarityCalculator -------------------- *)
role_keywords ==
  [ python |-> {<<"p","y","t","h","o","n">>, <<"p","y">>, <<"d","j","a","n","g","o">>, <<"f","l","a","s","k">>},
    javascript |-> {<<"j","a","v","a","s","c","r","i","p","t">>, <<"j","s">>, <<"r","e","a","c","t">>, <<"n","o","d","e">>},
    java |-> {<<"j","a","v","a">>, <<"s","p","r","i","n","g">>},
    backend |-> {<<"b","a","c","k","e","n","d">>, <<"a","p","i">>, <<"s","e","r","v","e","r">>},
    frontend |-> {<<"f","r","o","n","t","e","n","d">>, <<"u","i">>, <<"r","e","a","c","t">>},
    devops |-> {<<"d","e","v","o","p","s">>, <<"d","o","c","k","e","r">>, <<"k","u","b","e","r","n","e","t","e","s">>},
    senior |-> {<<"s","e","n","i","o","r">>, <<"l","e","a","d">>, <<"p","r","i","n","c","i","p","a","l">>},
    mid |-> {<<"m","i","d">>, <<"e","x","p","e","r","i","e","n","c","e","d">>},
    junior |-> {<<"j","u","n","i","o","r">>, <<"e","n","t","r","y">>, <<"i","n","t","e","r","n">>} ]

\* A score is a float in the source; every score the calculator produces is
\* 50.0 or (i / u) * 100 with u <= 9, so it is held exactly as an integer
\* number of 1/ScoreUnit percent (2520 = lcm(1..9)).  Python's float
\* comparisons of these values with each other and with whole-number
\* thresholds agree with the exact ones.
ScoreUnit == 2520
Percent(p) == p * ScoreUnit

DescPrefix == 300

(* ------------------------------ inputs -------------------------------- *)
\* (role, description) pairs given to the cache.  Keyword tags:
\*   JobA, JobA2  python backend frontend javascript   (same fingerprint)
\*   JobB         python backend frontend              75 against JobA
\*   JobE         java                                 0 against the others
JobA  == [role |-> <<"P","y">>, desc |-> <<"a","p","i"," ","u","i"," ","j","s">>]
JobA2 == [role |-> <<"p","y">>, desc |-> <<"a","p","i"," ","u","i"," ","j","s"," ">>]
JobB  == [role |-> <<"p","y">>, desc |-> <<"a","p","i"," ","u","i">>]
JobE  == [role |-> <<"j","a","v","a">>, desc |-> <<>>]
Jobs == {JobA, JobA2, JobB, JobE}
\* the end-to-end scenario of the specification: what is saved
BackendDeveloper ==
  [role |-> <<"B","a","c","k","e","n","d"," ","D","e","v","e","l","o","p","e","r">>,
   desc |-> <<"R","E","S","T"," ","A","P","I"," ","d","e","s","i","g","n"," ","w",
            "i","t","h"," ","P","y","t","h","o","n">>]
\* and what is asked for
BackendEngineer ==
  [role |-> <<"B","a","c","k","e","n","d"," ","E","n","g","i","n","e","e","r">>,
   desc |-> <<"B","u","i","l","d","i","n","g"," ","R","E","S","T"," ","A","P","I",
            "s"," ","i","n"," ","P","y","t","h","o","n">>]
ScenarioJobs == {BackendDeveloper, BackendEngineer}
\* JobB with a blank after the role, and before the description
JobTrail == [role |-> <<"p","y"," ">>, desc |-> <<"a","p","i"," ","u","i">>]
JobLead == [role |-> <<"p","y">>, desc |-> <<" ","a","p","i"," ","u","i">>]
\* two jobs with a | in the role or in the description
JobPipeL == [role |-> <<"a","|","b">>, desc |-> <<"c">>]
JobPipeR == [role |-> <<"a">>, desc |-> <<"b","|","c">>]
NormJobs == {JobTrail, JobLead, JobPipeL, JobPipeR}
\* jobs given to the scorers: SeniorSql names a level, Sql and JobPipeL hold
\* no keyword of role_keywords
SeniorSql == [role |-> <<"S","e","n","i","o","r">>, desc |-> <<"s","q","l">>]
Sql == [role |-> <<"s","q","l">>, desc |-> <<>>]
ScoreJobs == {JobA, JobB, JobE, BackendDeveloper, JobPipeL, SeniorSql, Sql}
\* the arguments the lookups are made with
QueryInputs ==
  { [job |-> JobA2, difficulty |-> "Easy"],
    [job |-> JobA2, difficulty |-> "Hard"],
    [job |-> JobB, difficulty |-> "Easy"],
    [job |-> JobE, difficulty |-> "Easy"] }
Difficulties == {"Easy", "Hard"}
Thresholds == {0, 75}
AnalysisPayloads == {"a1"}
\* the constructor's arguments
TtlHours == {0, 1}
CacheSizes == {1, 2}

\* descriptions around the 500-character cut of the analysis key
Pad(n) == [i \in 1..n |-> "a"]
DescLongX == Pad(500) \o <<"x">>           \* differ past the cut
DescLongY == Pad(500) \o <<"y">>
DescCutB == Pad(499) \o <<"b", "x">>   \* differs at the cut
DescCutBlank == Pad(499) \o <<" ", "z">> \* a blank at the cut
DescUpper == <<"A">> \o Pad(498)       \* 499 characters
KeyDescs == {DescLongX, DescLongY, DescCutB, DescCutBlank, DescUpper}
KeyPayloads == {"a1", "a2"}

\* every description given to the analysis cache
Descriptions == {job.desc : job \in Jobs} \cup KeyDescs

\* lines 31-32: the text the keywords are looked for in
job_text(job_role, job_desc) == lower(job_role \o <<" ">> \o Take(job_desc, DescPrefix))

\* lines 35-42: the roles whose keyword list has a keyword occurring in text
keywords_in(text) ==
  {role \in DOMAIN role_keywords : \E kw \in role_keywords[role] : Contains(kw, text)}

\* keywords_in(job_text(..)), computed once for each input
keywords ==
  [job \in Jobs \cup ScenarioJobs \cup NormJobs \cup ScoreJobs |->
     keywords_in(job_text(job.role, job.desc))]

\* variant: the shared keywords are set against both sets' sizes added up
overlap_by_sum(keywords1, keywords2) ==
  LET intersection == Cardinality(keywords1 \cap keywords2)
      union == Cardinality(keywords1) + Cardinality(keywords2)
  IN IF keywords1 = {} \/ keywords2 = {}
     THEN Percent(50)
     ELSE IF union > 0 THEN (intersection * Percent(100)) \div union ELSE Percent(50)
\* lines 44-51: the overlap of the two keyword sets
overlap(keywords1, keywords2) ==
  LET intersection == Cardinality(keywords1 \cap keywords2)
      union == Cardinality(keywords1 \cup keywords2)
  IN IF keywords1 = {} \/ keywords2 = {}
     THEN Percent(50)
     ELSE IF union > 0 THEN (intersection * Percent(100)) \div union ELSE Percent(50)

calculate_similarity(job_role1, job_desc1, job_role2, job_desc2) ==
  overlap(keywords[[role |-> job_role1, desc |-> job_desc1]],
          keywords[[role |-> job_role2, desc |-> job_desc2]])

\* the (payload, role, description, difficulty) arguments of save_questions
SaveInputs ==
  { [job |-> JobA, difficulty |-> "Easy", questions |-> <<"q1">>],
    [job |-> JobA2, difficulty |-> "Easy", questions |-> <<>>],
    [job |-> JobA2, difficulty |-> "Hard", questions |-> <<"q2">>],
    [job |-> JobB, difficulty |-> "Easy", questions |-> <<"q3">>] }

(* --------------------------- SimilarityEngine -------------------------- *)
role_aliases ==
  [
    python |->
      {<<"p","y","t","h","o","n">>,
       <<"p","y">>,
       <<"p","y","t","h","o","n","3">>,
       <<"d","j","a","n","g","o">>,
       <<"f","l","a","s","k">>,
       <<"f","a","s","t","a","p","i">>},
    javascript |->
      {<<"j","a","v","a","s","c","r","i","p","t">>,
       <<"j","s">>,
       <<"n","o","d","e">>,
       <<"n","o","d","e","j","s">>,
       <<"r","e","a","c","t">>,
       <<"v","u","e">>,
       <<"a","n","g","u","l","a","r">>,
       <<"n","e","x","t",".","j","s">>},
    java |->
      {<<"j","a","v","a">>,
       <<"s","p","r","i","n","g">>,
       <<"s","p","r","i","n","g"," ","b","o","o","t">>,
       <<"m","a","v","e","n">>,
       <<"g","r","a","d","l","e">>},
    golang |->
      {<<"g","o","l","a","n","g">>,
       <<"g","o">>,
       <<"g","o","l","a","n","d">>},
    rust |->
      {<<"r","u","s","t">>,
       <<"r","u","s","t","l","a","n","g">>},
    csharp |->
      {<<".","n","e","t">>,
       <<"c","s","h","a","r","p">>,
       <<"c","#">>,
       <<"d","o","t","n","e","t">>},
    php |->
      {<<"p","h","p">>,
       <<"l","a","r","a","v","e","l">>,
       <<"s","y","m","f","o","n","y">>},
    backend |->
      {<<"b","a","c","k","e","n","d">>,
       <<"a","p","i">>,
       <<"s","e","r","v","e","r">>,
       <<"s","e","r","v","i","c","e","s">>,
       <<"m","i","c","r","o","s","e","r","v","i","c","e","s">>},
    frontend |->
      {<<"f","r","o","n","t","e","n","d">>,
       <<"u","i">>,
       <<"u","x">>,
       <<"w","e","b">>,
       <<"c","l","i","e","n","t">>},
    fullstack |->
      {<<"f","u","l","l","s","t","a","c","k">>,
       <<"f","u","l","l","-","s","t","a","c","k">>,
       <<"f","u","l","l"," ","s","t","a","c","k">>},
    devops |->
      {<<"d","e","v","o","p","s">>,
       <<"d","e","v","-","o","p","s">>,
       <<"s","r","e">>,
       <<"i","n","f","r","a","s","t","r","u","c","t","u","r","e">>,
       <<"c","l","o","u","d">>},
    data |->
      {<<"d","a","t","a">>,
       <<"m","l">>,
       <<"a","i">>,
       <<"m","a","c","h","i","n","e"," ","l","e","a","r","n","i","n","g">>,
       <<"a","n","a","l","y","t","i","c","s">>,
       <<"d","e","e","p"," ","l","e","a","r","n","i","n","g">>},
    mobile |->
      {<<"m","o","b","i","l","e">>,
       <<"i","o","s">>,
       <<"a","n","d","r","o","i","d">>,
       <<"r","e","a","c","t"," ","n","a","t","i","v","e">>,
       <<"f","l","u","t","t","e","r">>},
    senior |->
      {<<"s","e","n","i","o","r">>,
       <<"l","e","a","d">>,
       <<"p","r","i","n","c","i","p","a","l">>,
       <<"a","r","c","h","i","t","e","c","t">>,
       <<"e","x","p","e","r","t">>,
       <<"s","t","a","f","f">>},
    junior |->
      {<<"j","u","n","i","o","r">>,
       <<"e","n","t","r","y">>,
       <<"i","n","t","e","r","n">>,
       <<"g","r","a","d","u","a","t","e">>,
       <<"f","r","e","s","h","e","r">>},
    mid |->
      {<<"m","i","d">>,
       <<"m","i","d","-","l","e","v","e","l">>,
       <<"m","i","d"," ","l","e","v","e","l">>,
       <<"e","x","p","e","r","i","e","n","c","e">>} ]

skill_keywords ==
  [
    backend |->
      {<<"a","p","i">>,
       <<"d","a","t","a","b","a","s","e">>,
       <<"s","e","r","v","e","r">>,
       <<"s","q","l">>,
       <<"r","e","s","t">>,
       <<"g","r","p","c">>,
       <<"g","r","a","p","h","q","l">>,
       <<"p","o","s","t","g","r","e","s","q","l">>,
       <<"m","o","n","g","o","d","b">>},
    frontend |->
      {<<"h","t","m","l">>,
       <<"c","s","s">>,
       <<"d","o","m">>,
       <<"r","e","s","p","o","n","s","i","v","e">>,
       <<"a","c","c","e","s","s","i","b","i","l","i","t","y">>,
       <<"s","p","a">>,
       <<"c","o","m","p","o","n","e","n","t">>},
    devops |->
      {<<"d","o","c","k","e","r">>,
       <<"k","u","b","e","r","n","e","t","e","s">>,
       <<"c","i","/","c","d">>,
       <<"j","e","n","k","i","n","s">>,
       <<"t","e","r","r","a","f","o","r","m">>,
       <<"a","w","s">>,
       <<"g","c","p">>,
       <<"a","z","u","r","e">>},
    data |->
      {<<"p","a","n","d","a","s">>,
       <<"n","u","m","p","y">>,
       <<"s","k","l","e","a","r","n">>,
       <<"t","e","n","s","o","r","f","l","o","w">>,
       <<"s","p","a","r","k">>,
       <<"h","a","d","o","o","p">>},
    mobile |->
      {<<"i","o","s">>,
       <<"a","n","d","r","o","i","d">>,
       <<"s","w","i","f","t">>,
       <<"k","o","t","l","i","n">>,
       <<"n","a","t","i","v","e">>},
    cloud |->
      {<<"a","w","s">>,
       <<"g","c","p">>,
       <<"a","z","u","r","e">>,
       <<"h","e","r","o","k","u">>,
       <<"l","a","m","b","d","a">>,
       <<"s","e","r","v","e","r","l","e","s","s">>} ]

\* the words of lines 67-72
SeniorWords == {<<"s","e","n","i","o","r">>, <<"l","e","a","d">>, <<"p","r","i","n","c","i","p","a","l">>, <<"s","t","a","f","f">>}
JuniorWords == {<<"j","u","n","i","o","r">>, <<"e","n","t","r","y">>, <<"i","n","t","e","r","n">>, <<"f","r","e","s","h","e","r">>}
MidWords == {<<"m","i","d">>, <<"e","x","p","e","r","i","e","n","c","e","d">>}

\* lines 67-74: features['level']
level_of(text) ==
  IF \E word \in SeniorWords : Contains(word, text) THEN <<"senior">>
  ELSE IF \E word \in JuniorWords : Contains(word, text) THEN <<"junior">>
  ELSE IF \E word \in MidWords : Contains(word, text) THEN <<"mid">>
  ELSE <<"unspecified">>

\* lines 52-80; role_types and domains are held as the sets lines 105-106 and
\* 118-119 make of them, the 'keywords' feature is not used by the score
extract_features(job_role, job_description) ==
  [ role_types |-> {role \in DOMAIN role_aliases :
                      \E alias \in role_aliases[role] :
                        Contains(alias, lower(job_role \o <<" ">> \o job_description))},
    level |-> level_of(lower(job_role \o <<" ">> \o job_description)),
    domains |-> {domain \in DOMAIN skill_keywords :
                   \E kw \in skill_keywords[domain] :
                     Contains(kw, lower(job_role \o <<" ">> \o job_description))} ]

\* extract_features, computed once for each input
features == [job \in ScoreJobs |-> extract_features(job.role, job.desc)]

\* role_score, level_score and domain_score are held exactly as integer
\* numbers of 1/FeatureUnit percent (720720 = lcm(1..16)), final_score as an
\* integer number of 1/(10 * FeatureUnit) percent; the float final_score lies
\* on the same side of 85, 70, 50 and 30 as the exact one
FeatureUnit == 720720
EnginePercent(p) == p * 10 * FeatureUnit

\* variant: a side without features scores 0
feature_score_or_zero(set1, set2) ==
  IF set1 # {} /\ set2 # {}
  THEN IF Cardinality(set1 \cup set2) > 0
       THEN (Cardinality(set1 \cap set2) * 100 * FeatureUnit)
              \div Cardinality(set1 \cup set2)
       ELSE 0
  ELSE 0
\* lines 108-113 and 121-126
feature_score(set1, set2) ==
  IF set1 # {} /\ set2 # {}
  THEN IF Cardinality(set1 \cup set2) > 0
       THEN (Cardinality(set1 \cap set2) * 100 * FeatureUnit)
              \div Cardinality(set1 \cup set2)
       ELSE 0
  ELSE 50 * FeatureUnit

\* line 116
level_score(level1, level2) ==
  IF level1 = level2 THEN 100 * FeatureUnit ELSE 40 * FeatureUnit

\* lines 132-141
reason_of(final_score) ==
  IF final_score >= EnginePercent(85) THEN "Nearly identical roles"
  ELSE IF final_score >= EnginePercent(70) THEN "Very similar roles"
  ELSE IF final_score >= EnginePercent(50) THEN "Moderately similar roles"
  ELSE IF final_score >= EnginePercent(30) THEN "Somewhat related roles"
  ELSE "Very different roles"

\* lines 129-146
combine(role_score, level, domain_score) ==
  [ final_score |-> 4 * role_score + 3 * level + 3 * domain_score,
    reason |-> reason_of(4 * role_score + 3 * level + 3 * domain_score),
    role_score |-> role_score, level_score |-> level,
    domain_score |-> domain_score ]

\* lines 98-129, features1 and features2 being the features of lines 99-100
score_features(features1, features2) ==
  combine(feature_score(features1.role_types, features2.role_types),
          level_score(features1.level, features2.level),
          feature_score(features1.domains, features2.domains))

engine_calculate_similarity(job_role1, job_desc1, job_role2, job_desc2) ==
  score_features(features[[role |-> job_role1, desc |-> job_desc1]],
                 features[[role |-> job_role2, desc |-> job_desc2]])

(* ------------------------------ values -------------------------------- *)
\* Optional[...]: None is [some |-> FALSE]
None == [some |-> FALSE, val |-> <<>>]
Some(v) == [some |-> TRUE, val |-> v]
\* Python truth value of an Optional[List]: None and [] are falsy
Truthy(r) == r.some /\ r.val # <<>>

NoTime == -1   \* last_api_call_time = None

(* ---------------------------- fingerprints ---------------------------- *)
\* hashlib.sha256(text.encode()).hexdigest(): modelled as injective, a key
\* is the hashed text itself
sha256(text) == text

_create_fingerprint(job_role, job_description) ==
  sha256(strip(lower(job_role \o <<"|">> \o job_description)))

AnalysisPrefix == 500

\* variant: the key is made from the whole description
analysis_key_text_untruncated(job_description) == strip(lower(job_description))
\* line 95: the text that is hashed
analysis_key_text(job_description) ==
  strip(lower(Take(job_description, AnalysisPrefix)))

\* line 96 on analysis_key_text(..), computed once for each input
analysis_keys == [d \in Descriptions |-> sha256(analysis_key_text(d))]

_create_analysis_key(job_description) == analysis_keys[job_description]

(* ------------------------------- dict --------------------------------- *)
EmptyDict == [k \in {} |-> 0]
\* d[k] = v
DictSet(d, k, v) == [x \in DOMAIN d \cup {k} |-> IF x = k THEN v ELSE d[x]]
\* del d[k] for every k in ks
DictDel(d, ks) == [x \in DOMAIN d \ ks |-> d[x]]

(* ------------------------------ state --------------------------------- *)
VARIABLES
  cache,    \* the AdvancedSmartCache object (self)
  before,   \* the same object as it was when the last call was made
  now,      \* the clock reading datetime.now() returns
  call,     \* the step that led to this state: the call made on the cache
            \* (its name and arguments) or a tick of the clock
  result,   \* what that call returned
  tally,    \* get_smart_response calls made so far, and how many of them
            \* returned an exact match and a similarity match
  callers   \* the calls two threads are in the middle of: for each, the line
            \* it is at and its local variables

vars == <<cache, before, now, call, result, tally, callers>>

\* AdvancedSmartCache.__init__; the clock is read in hours, so the ttl of
\* ttl_hours * 3600 seconds is ttl_hours clock units
__init__(ttl_hours, max_cache_size) ==
  [ questions_cache |-> EmptyDict,
    analysis_cache |-> EmptyDict,
    similar_pool |-> <<>>,
    heap |-> <<>>,
    max_cache_size |-> max_cache_size,
    ttl |-> ttl_hours,
    stats |-> [exact_hits |-> 0, similar_hits |-> 0, cache_misses |-> 0,
               total_api_calls |-> 0, api_calls_saved |-> 0, cost_saved |-> 0,
               total_requests |-> 0],
    last_api_call_time |-> NoTime ]

NoCall == [op |-> "none", job_role |-> <<>>, job_description |-> <<>>,
           difficulty |-> "", threshold |-> 0, questions |-> None]
NoSummary == [total_requests |-> 0, exact_hits |-> 0, similar_hits |-> 0,
              total_cache_hits |-> 0, cache_hit_rate |-> 0, total_api_calls |-> 0,
              api_calls_saved |-> 0, questions_cached |-> 0, analysis_cached |-> 0,
              cache_efficiency |-> ""]
\* payload, score, tag: the values returned by a lookup; src: the identity of
\* the cache_entry the payload was read from (0: none); key: the key a save
\* returned; summary: the dict stats_summary returned
NoResult == [payload |-> None, score |-> 0, tag |-> "", src |-> 0, key |-> <<>>,
             summary |-> NoSummary]
\* what the callers have seen: get_smart_response calls made (requests), how
\* many came back tagged exact_match (exact) or with a similarity tag
\* (similar); get_exact_analysis calls made (lookups), how many returned an
\* analysis (found)
\* a request to generate_smart_questions as the service saw it: its arguments,
\* whether the model was asked (fetched), what was saved to the cache (saved),
\* the clock reading (at)
NoRequest == [job_role |-> <<>>, job_description |-> <<>>, difficulty |-> "",
              num_questions |-> 0, fetched |-> FALSE, saved |-> None, at |-> 0]
\* a thread that is in no call.  pc: the line of advanced_smart_cache.py the
\* thread is about to run; mid: the thread has done the load of that line's
\* += and not yet its store; entry, item, score, loaded, keys: its locals; ret: what its call
\* returned; raised: the exception that ended it
Idle == [ op |-> "none", pc |-> "idle", job_role |-> <<>>, job_description |-> <<>>,
          difficulty |-> "", threshold |-> 0, entry |-> 0, item |-> 0, score |-> 0,
          loaded |-> 0, mid |-> FALSE, keys |-> {}, ret |-> None, raised |-> "" ]
Threads == {1, 2}
\* cache_stats: the service's own counters; last, prev: the last two requests
\* to generate_smart_questions
NoTally == [requests |-> 0, exact |-> 0, similar |-> 0, lookups |-> 0, found |-> 0,
            cache_stats |-> [total_requests |-> 0, cache_hits |-> 0, api_calls |-> 0],
            last |-> NoRequest, prev |-> NoRequest]

Init ==
  /\ \E ttl_hours \in TtlHours, max_cache_size \in CacheSizes :
       cache = __init__(ttl_hours, max_cache_size)
  /\ before = cache
  /\ now = 0
  /\ call = NoCall
  /\ result = NoResult
  /\ tally = NoTally
  /\ callers = [c \in Threads |-> Idle]

(* --------------------------- questions cache -------------------------- *)
\* api_calls_saved is held in halves of a call and cost_saved in units of
\* 0.0001 dollar, so that the float increments 1, 0.5, 0.001, 0.0008,
\* 0.0005 and 0.0003 are whole numbers.
Bump(stats, field, by) == [stats EXCEPT ![field] = @ + by]

\* list.sort(key=lambda x: x['accessed_at'], reverse=True): stable, items
\* with equal accessed_at keep their order
RECURSIVE InsertDesc(_, _)
InsertDesc(sorted, item) ==
  IF sorted = <<>> THEN <<item>>
  ELSE IF Head(sorted).accessed_at >= item.accessed_at
       THEN <<Head(sorted)>> \o InsertDesc(Tail(sorted), item)
       ELSE <<item>> \o sorted

RECURSIVE sort_by_accessed_at_desc(_)
sort_by_accessed_at_desc(pool) ==
  IF pool = <<>> THEN <<>>
  ELSE InsertDesc(sort_by_accessed_at_desc(SubSeq(pool, 1, Len(pool) - 1)),
                  pool[Len(pool)])

\* variant: the cut comes one item late
bound_pool_late(pool, max_cache_size) ==
  IF Len(pool) > max_cache_size + 1
  THEN Take(sort_by_accessed_at_desc(pool), max_cache_size)
  ELSE pool
\* variant: the cut is made without the sort
bound_pool_unsorted(pool, max_cache_size) ==
  IF Len(pool) > max_cache_size
  THEN Take(pool, max_cache_size)
  ELSE pool
\* lines 144-146 of save_questions
bound_pool(pool, max_cache_size) ==
  IF Len(pool) > max_cache_size
  THEN Take(sort_by_accessed_at_desc(pool), max_cache_size)
  ELSE pool

\* lines 123-149 of save_questions, fingerprint being the key of line 121
store_questions(self, fingerprint, questions, job_role, job_description, difficulty, t) ==
  LET cache_entry == [ fingerprint |-> fingerprint,
                       job_role |-> job_role,
                       job_description |-> job_description,
                       difficulty |-> difficulty,
                       questions |-> questions,
                       created_at |-> t,
                       expires_at |-> t + self.ttl,
                       access_count |-> 0,
                       cache_type |-> "questions" ]
      id == Len(self.heap) + 1
      pool_item == [ fingerprint |-> fingerprint, entry |-> id,
                     accessed_at |-> t, cache_type |-> "questions" ]
  IN [ self |-> [self EXCEPT
                   !.heap = Append(@, cache_entry),
                   !.questions_cache = DictSet(@, fingerprint, id),
                   !.similar_pool = bound_pool(Append(@, pool_item), self.max_cache_size)],
       ret |-> fingerprint ]

save_questions(self, questions, job_role, job_description, difficulty, t) ==
  store_questions(self, _create_fingerprint(job_role, job_description),
                  questions, job_role, job_description, difficulty, t)

\* variant: an entry is expired at its expires_at already
is_expired_at_expiry(entry, t) == t >= entry.expires_at
\* datetime.now() > entry['expires_at'] (also lines 109, 113 and 256)
is_expired(entry, t) == t > entry.expires_at

\* variant: the exact lookup answers whatever the stored difficulty
lookup_exact_any_difficulty(self, fingerprint, difficulty, t) ==
  LET id == self.questions_cache[fingerprint]
      entry == self.heap[id]
  IN IF fingerprint \notin DOMAIN self.questions_cache
     THEN [self |-> self, ret |-> None, src |-> 0]
     ELSE IF is_expired(entry, t)
     THEN [ self |-> [self EXCEPT
                        !.questions_cache = DictDel(@, {fingerprint}),
                        !.stats = Bump(@, "cache_misses", 1)],
            ret |-> None, src |-> 0 ]
     ELSE [ self |-> [self EXCEPT
                        !.heap[id].access_count = @ + 1,
                        !.stats = Bump(Bump(Bump(@, "exact_hits", 1),
                                            "api_calls_saved", 2),
                                       "cost_saved", 10)],
            ret |-> Some(entry.questions), src |-> id ]

\* variant: an exact hit renews the entry's expires_at
lookup_exact_renewing(self, fingerprint, difficulty, t) ==
  LET id == self.questions_cache[fingerprint]
      entry == self.heap[id]
  IN IF fingerprint \notin DOMAIN self.questions_cache
     THEN [self |-> self, ret |-> None, src |-> 0]
     ELSE IF is_expired(entry, t)
     THEN [ self |-> [self EXCEPT
                        !.questions_cache = DictDel(@, {fingerprint}),
                        !.stats = Bump(@, "cache_misses", 1)],
            ret |-> None, src |-> 0 ]
     ELSE IF entry.difficulty # difficulty
     THEN [self |-> self, ret |-> None, src |-> 0]
     ELSE [ self |-> [self EXCEPT
                        !.heap[id].access_count = @ + 1,
                        !.heap[id].expires_at = t + self.ttl,
                        !.stats = Bump(Bump(Bump(@, "exact_hits", 1),
                                            "api_calls_saved", 2),
                                       "cost_saved", 10)],
            ret |-> Some(entry.questions), src |-> id ]

\* lines 155-174 of get_exact_questions, fingerprint being the key of line 153
lookup_exact(self, fingerprint, difficulty, t) ==
  LET id == self.questions_cache[fingerprint]
      entry == self.heap[id]
  IN IF fingerprint \notin DOMAIN self.questions_cache
     THEN [self |-> self, ret |-> None, src |-> 0]
     ELSE IF is_expired(entry, t)
     THEN [ self |-> [self EXCEPT
                        !.questions_cache = DictDel(@, {fingerprint}),
                        !.stats = Bump(@, "cache_misses", 1)],
            ret |-> None, src |-> 0 ]
     ELSE IF entry.difficulty # difficulty
     THEN [self |-> self, ret |-> None, src |-> 0]
     ELSE [ self |-> [self EXCEPT
                        !.heap[id].access_count = @ + 1,
                        !.stats = Bump(Bump(Bump(@, "exact_hits", 1),
                                            "api_calls_saved", 2),
                                       "cost_saved", 10)],
            ret |-> Some(entry.questions), src |-> id ]

get_exact_questions(self, job_role, job_description, difficulty, t) ==
  lookup_exact(self, _create_fingerprint(job_role, job_description), difficulty, t)

MaxSimilarAccess == 5

\* variant: the scan does not look at access_count
is_candidate_any_count(self, pool_item, difficulty) ==
  /\ pool_item.cache_type = "questions"
  /\ self.heap[pool_item.entry].difficulty = difficulty
\* variant: the scan does not look at the difficulty
is_candidate_any_difficulty(self, pool_item, difficulty) ==
  /\ pool_item.cache_type = "questions"
  /\ ~ (self.heap[pool_item.entry].access_count > MaxSimilarAccess)
\* lines 183-192: the pool items the scan scores
is_candidate(self, pool_item, difficulty) ==
  /\ pool_item.cache_type = "questions"
  /\ self.heap[pool_item.entry].difficulty = difficulty
  /\ ~ (self.heap[pool_item.entry].access_count > MaxSimilarAccess)

\* variant: the first candidate that scores is kept
keep_best_first(best, i, similarity_score) ==
  IF similarity_score > best.best_score /\ best.best_entry = 0
  THEN [best_score |-> similarity_score, best_entry |-> i]
  ELSE best
\* lines 200-203: best is the pair (best_score, index in the pool of
\* best_entry, 0 for None); pool item i is a candidate that scored
\* similarity_score
keep_best(best, i, similarity_score) ==
  IF similarity_score > best.best_score
  THEN [best_score |-> similarity_score, best_entry |-> i]
  ELSE best

\* lines 183-203: one turn of the loop, on pool item i
scan_item(self, job_role, job_description, difficulty, i, best) ==
  IF is_candidate(self, self.similar_pool[i], difficulty)
  THEN keep_best(best, i,
                 calculate_similarity(job_role, job_description,
                                      self.heap[self.similar_pool[i].entry].job_role,
                                      self.heap[self.similar_pool[i].entry].job_description))
  ELSE best

\* lines 182-203: the loop over the pool, from item i on
RECURSIVE scan_pool(_, _, _, _, _, _)
scan_pool(self, job_role, job_description, difficulty, i, best) ==
  IF i > Len(self.similar_pool) THEN best
  ELSE scan_pool(self, job_role, job_description, difficulty, i + 1,
                 scan_item(self, job_role, job_description, difficulty, i, best))

\* lines 212-217
savings(best_score) ==
  IF best_score >= Percent(80) THEN 8
  ELSE IF best_score >= Percent(70) THEN 5
  ELSE 3

\* variant: a hit leaves the pool item's accessed_at as it was
answer_similar_unrefreshed(self, best, threshold, t) ==
  LET id == self.similar_pool[best.best_entry].entry
  IN IF best.best_entry = 0 \/ best.best_score < threshold
     THEN [ self |-> [self EXCEPT !.stats = Bump(@, "cache_misses", 1)],
            ret |-> None, score |-> 0, src |-> 0 ]
     ELSE [ self |-> [self EXCEPT
                        !.heap[id].access_count = @ + 1,
                        !.stats = Bump(Bump(Bump(@, "similar_hits", 1),
                                            "api_calls_saved", 1),
                                       "cost_saved", savings(best.best_score))],
            ret |-> Some(self.heap[id].questions), score |-> best.best_score,
            src |-> id ]

\* lines 205-224 of get_similar_questions, best being what the loop found
answer_similar(self, best, threshold, t) ==
  LET id == self.similar_pool[best.best_entry].entry
  IN IF best.best_entry = 0 \/ best.best_score < threshold
     THEN [ self |-> [self EXCEPT !.stats = Bump(@, "cache_misses", 1)],
            ret |-> None, score |-> 0, src |-> 0 ]
     ELSE [ self |-> [self EXCEPT
                        !.heap[id].access_count = @ + 1,
                        !.similar_pool[best.best_entry].accessed_at = t,
                        !.stats = Bump(Bump(Bump(@, "similar_hits", 1),
                                            "api_calls_saved", 1),
                                       "cost_saved", savings(best.best_score))],
            ret |-> Some(self.heap[id].questions), score |-> best.best_score,
            src |-> id ]

get_similar_questions(self, job_role, job_description, difficulty, threshold, t) ==
  answer_similar(self,
                 scan_pool(self, job_role, job_description, difficulty, 1,
                           [best_score |-> 0, best_entry |-> 0]),
                 threshold, t)

SmartThreshold == 65
HighSimilarity == 80

\* lines 282-289 of get_smart_response, similar being what line 280 returned
answer_from_similar(similar) ==
  IF Truthy(similar.ret)
  THEN [self |-> similar.self, ret |-> similar.ret,
        tag |-> IF similar.score >= Percent(HighSimilarity)
                THEN "high_similarity" ELSE "medium_similarity",
        score |-> similar.score, src |-> similar.src]
  ELSE [self |-> similar.self, ret |-> None, tag |-> "no_match",
        score |-> 0, src |-> 0]

\* lines 276-289 of get_smart_response, exact being what line 275 returned
answer_from_exact(exact, job_role, job_description, difficulty, t) ==
  IF Truthy(exact.ret)
  THEN [self |-> exact.self, ret |-> exact.ret, tag |-> "exact_match",
        score |-> 0, src |-> exact.src]
  ELSE answer_from_similar(
         get_similar_questions(exact.self, job_role, job_description, difficulty,
                               Percent(SmartThreshold), t))

get_smart_response(self, job_role, job_description, difficulty, t) ==
  answer_from_exact(
    get_exact_questions([self EXCEPT !.stats = Bump(@, "total_requests", 1)],
                        job_role, job_description, difficulty, t),
    job_role, job_description, difficulty, t)

(* ---------------------------- analysis cache --------------------------- *)
\* variant: the analysis entry is put in the similarity pool as well
store_analysis_pooled(self, analysis_key, analysis, job_description, t) ==
  LET cache_entry == [ analysis_key |-> analysis_key,
                       job_description |-> Take(job_description, AnalysisPrefix),
                       analysis |-> analysis,
                       created_at |-> t,
                       expires_at |-> t + self.ttl,
                       access_count |-> 0,
                       cache_type |-> "analysis" ]
      pool_item == [ fingerprint |-> analysis_key, entry |-> 0,
                     accessed_at |-> t, cache_type |-> "analysis" ]
  IN [ self |-> [self EXCEPT !.analysis_cache = DictSet(@, analysis_key, cache_entry),
                             !.similar_pool = Append(@, pool_item)],
       ret |-> analysis_key ]
\* lines 232-245 of save_analysis, analysis_key being the key of line 230
store_analysis(self, analysis_key, analysis, job_description, t) ==
  LET cache_entry == [ analysis_key |-> analysis_key,
                       job_description |-> Take(job_description, AnalysisPrefix),
                       analysis |-> analysis,
                       created_at |-> t,
                       expires_at |-> t + self.ttl,
                       access_count |-> 0,
                       cache_type |-> "analysis" ]
  IN [ self |-> [self EXCEPT !.analysis_cache = DictSet(@, analysis_key, cache_entry)],
       ret |-> analysis_key ]

save_analysis(self, analysis, job_description, t) ==
  store_analysis(self, _create_analysis_key(job_description), analysis,
                 job_description, t)

\* lines 251-266 of get_exact_analysis, analysis_key being the key of line 249
lookup_analysis(self, analysis_key, t) ==
  IF analysis_key \notin DOMAIN self.analysis_cache
  THEN [self |-> self, ret |-> None]
  ELSE IF is_expired(self.analysis_cache[analysis_key], t)
  THEN [ self |-> [self EXCEPT !.analysis_cache = DictDel(@, {analysis_key})],
         ret |-> None ]
  ELSE [ self |-> [self EXCEPT
                     !.analysis_cache[analysis_key].access_count = @ + 1,
                     !.stats = Bump(Bump(Bump(@, "exact_hits", 1),
                                         "api_calls_saved", 2),
                                    "cost_saved", 5)],
         ret |-> Some(<<self.analysis_cache[analysis_key].analysis>>) ]

get_exact_analysis(self, job_description, t) ==
  lookup_analysis(self, _create_analysis_key(job_description), t)

(* ------------------------------ utility -------------------------------- *)
\* variant: only the question map is swept
_cleanup_expired_questions(self, t) ==
  [self EXCEPT
     !.questions_cache =
        DictDel(@, {k \in DOMAIN self.questions_cache :
                      is_expired(self.heap[self.questions_cache[k]], t)})]
\* lines 105-115
_cleanup_expired(self, t) ==
  [self EXCEPT
     !.questions_cache =
        DictDel(@, {k \in DOMAIN self.questions_cache :
                      is_expired(self.heap[self.questions_cache[k]], t)}),
     !.analysis_cache =
        DictDel(@, {k \in DOMAIN self.analysis_cache :
                      is_expired(self.analysis_cache[k], t)})]

record_api_call(self, t) ==
  [self EXCEPT !.last_api_call_time = t,
               !.stats = Bump(@, "total_api_calls", 1)]

\* variant: the label's lower bounds are exclusive
efficiency_exclusive(cache_hits, total_requests) ==
  IF total_requests = 0 THEN "No data yet"
  ELSE IF 10 * cache_hits > 8 * total_requests THEN "Excellent (80%+)"
  ELSE IF 10 * cache_hits > 6 * total_requests THEN "Good (60-80%)"
  ELSE IF 10 * cache_hits > 4 * total_requests THEN "Fair (40-60%)"
  ELSE "Warming up (<40%)"
\* lines 327-339, with cache_hits = exact_hits + similar_hits; the float
\* comparisons hit_rate >= 0.8, 0.6, 0.4 are compared exactly
efficiency(cache_hits, total_requests) ==
  IF total_requests = 0 THEN "No data yet"
  ELSE IF 10 * cache_hits >= 8 * total_requests THEN "Excellent (80%+)"
  ELSE IF 10 * cache_hits >= 6 * total_requests THEN "Good (60-80%)"
  ELSE IF 10 * cache_hits >= 4 * total_requests THEN "Fair (40-60%)"
  ELSE "Warming up (<40%)"

_calculate_efficiency(self) ==
  efficiency(self.stats.exact_hits + self.stats.similar_hits,
             self.stats.total_requests)

\* round(num / den) to the nearest integer, ties to even: what the float
\* format specs .1f and .0f do to a value that is exactly num / den
RoundHalfEven(num, den) ==
  LET q == num \div den
      r == num % den
  IN IF 2 * r < den THEN q
     ELSE IF 2 * r > den THEN q + 1
     ELSE IF q % 2 = 0 THEN q ELSE q + 1

\* lines 303-323 of stats_summary, on the swept cache.  cache_hit_rate is
\* the string f"{hit_rate:.1f}%": held as the number of tenths of a percent
\* it shows.  api_calls_saved is f"{...:.0f}" of a count held in halves.
\* cost_saved_dollars is not part of the summary here.
summarize(self) ==
  [ total_requests |-> self.stats.total_requests,
    exact_hits |-> self.stats.exact_hits,
    similar_hits |-> self.stats.similar_hits,
    total_cache_hits |-> self.stats.exact_hits + self.stats.similar_hits,
    cache_hit_rate |-> IF self.stats.total_requests > 0
                       THEN RoundHalfEven((self.stats.exact_hits
                                           + self.stats.similar_hits) * 1000,
                                          self.stats.total_requests)
                       ELSE 0,
    total_api_calls |-> self.stats.total_api_calls,
    api_calls_saved |-> RoundHalfEven(self.stats.api_calls_saved, 2),
    questions_cached |-> Cardinality(DOMAIN self.questions_cache),
    analysis_cached |-> Cardinality(DOMAIN self.analysis_cache),
    cache_efficiency |-> _calculate_efficiency(self) ]

stats_summary(self, t) ==
  [self |-> _cleanup_expired(self, t), ret |-> summarize(_cleanup_expired(self, t))]

(* ------------------------------ service ------------------------------- *)
\* the import of advanced_smart_cache succeeds: it needs the standard library only
CACHE_ENABLED == TRUE

\* isinstance(q, dict) and 'question' in q
is_question(q) == q # "bad"

\* the questions kept from the parsed response
valid_questions(parsed, num_questions) ==
  SelectSeq(Take(parsed, num_questions), is_question)

_default_questions(num_questions) == Take(<<"d1", "d2", "d3", "d4">>, num_questions)

\* variant: the API call is recorded, the questions are not saved
save_back_unsaved(self, questions, job_role, job_description, difficulty, t) ==
  [ self |-> record_api_call(self, t),
    ret |-> questions, fetched |-> TRUE, saved |-> None, api_calls |-> 1 ]
\* the questions are saved to the cache and the API call recorded
save_back(self, questions, job_role, job_description, difficulty, t) ==
  [ self |-> record_api_call(
               save_questions(self, questions, job_role, job_description,
                              difficulty, t).self, t),
    ret |-> questions, fetched |-> TRUE, saved |-> Some(questions), api_calls |-> 1 ]

\* the model's response is parsed; response = None: generate_content or json
\* parsing failed
generate(self, response, job_role, job_description, num_questions, difficulty, t) ==
  IF response = None \/ valid_questions(response.val, num_questions) = <<>>
  THEN [ self |-> self, ret |-> _default_questions(num_questions),
         fetched |-> TRUE, saved |-> None, api_calls |-> 0 ]
  ELSE IF CACHE_ENABLED
  THEN save_back(self, valid_questions(response.val, num_questions),
                 job_role, job_description, difficulty, t)
  ELSE [ self |-> self, ret |-> valid_questions(response.val, num_questions),
         fetched |-> TRUE, saved |-> None, api_calls |-> 0 ]

\* cached being what get_smart_response returned
answer_or_generate(cached, response, job_role, job_description, num_questions, difficulty, t) ==
  IF Truthy(cached.ret)
  THEN [ self |-> cached.self, ret |-> Take(cached.ret.val, num_questions),
         fetched |-> FALSE, saved |-> None, api_calls |-> 0,
         strategy |-> cached.tag, src |-> cached.src, cache_hits |-> 1 ]
  ELSE generate(cached.self, response, job_role, job_description,
                num_questions, difficulty, t) @@
       [ strategy |-> cached.tag, src |-> 0, cache_hits |-> 0 ]

generate_smart_questions(self, response, job_role, job_description, num_questions, difficulty, t) ==
  IF CACHE_ENABLED
  THEN answer_or_generate(
         get_smart_response(self, job_role, job_description, difficulty, t),
         response, job_role, job_description, num_questions, difficulty, t)
  ELSE generate(self, response, job_role, job_description, num_questions,
                difficulty, t) @@
       [ strategy |-> "", src |-> 0, cache_hits |-> 0 ]

(* ------------------------------ actions ------------------------------- *)
Called(op, job_role, job_description, difficulty, threshold, questions) ==
  [op |-> op, job_role |-> job_role, job_description |-> job_description,
   difficulty |-> difficulty, threshold |-> threshold, questions |-> questions]

\* the call c has returned res and left the cache as self
Returned(c, self, res) ==
  /\ cache' = self
  /\ before' = cache
  /\ call' = c
  /\ result' = res
  /\ UNCHANGED <<now, callers>>

SavedQuestions(c, r) == Returned(c, r.self, [NoResult EXCEPT !.key = r.ret])

SaveQuestions(questions, job_role, job_description, difficulty) ==
  /\ SavedQuestions(Called("save_questions", job_role, job_description, difficulty,
                           0, Some(questions)),
                    save_questions(cache, questions, job_role, job_description,
                                   difficulty, now))
  /\ UNCHANGED tally

GotExact(c, r) ==
  Returned(c, r.self, [NoResult EXCEPT !.payload = r.ret, !.src = r.src])

GetExactQuestions(job_role, job_description, difficulty) ==
  /\ GotExact(Called("get_exact_questions", job_role, job_description, difficulty,
                     0, None),
              get_exact_questions(cache, job_role, job_description, difficulty, now))
  /\ UNCHANGED tally

GotSimilar(c, r) ==
  Returned(c, r.self,
           [NoResult EXCEPT !.payload = r.ret, !.score = r.score, !.src = r.src])

GetSimilarQuestions(job_role, job_description, difficulty, threshold) ==
  /\ GotSimilar(Called("get_similar_questions", job_role, job_description,
                       difficulty, threshold, None),
                get_similar_questions(cache, job_role, job_description, difficulty,
                                      Percent(threshold), now))
  /\ UNCHANGED tally

GotSmart(c, r) ==
  /\ Returned(c, r.self,
              [NoResult EXCEPT !.payload = r.ret, !.score = r.score,
                               !.tag = r.tag, !.src = r.src])
  /\ tally' = [tally EXCEPT
                 !.requests = @ + 1,
                 !.exact = @ + (IF r.tag = "exact_match" THEN 1 ELSE 0),
                 !.similar = @ + (IF r.tag \in {"high_similarity", "medium_similarity"}
                                  THEN 1 ELSE 0)]

GetSmartResponse(job_role, job_description, difficulty) ==
  GotSmart(Called("get_smart_response", job_role, job_description, difficulty,
                  SmartThreshold, None),
           get_smart_response(cache, job_role, job_description, difficulty, now))

SavedAnalysis(c, r) == Returned(c, r.self, [NoResult EXCEPT !.key = r.ret])

SaveAnalysis(analysis, job_description) ==
  /\ SavedAnalysis(Called("save_analysis", <<>>, job_description, "", 0,
                          Some(<<analysis>>)),
                   save_analysis(cache, analysis, job_description, now))
  /\ UNCHANGED tally

GotAnalysis(c, r) ==
  /\ Returned(c, r.self, [NoResult EXCEPT !.payload = r.ret])
  /\ tally' = [tally EXCEPT !.lookups = @ + 1,
                            !.found = @ + (IF r.ret # None THEN 1 ELSE 0)]

GetExactAnalysis(job_description) ==
  GotAnalysis(Called("get_exact_analysis", <<>>, job_description, "", 0, None),
              get_exact_analysis(cache, job_description, now))

RecordApiCall ==
  /\ Returned(Called("record_api_call", <<>>, <<>>, "", 0, None),
              record_api_call(cache, now), NoResult)
  /\ UNCHANGED tally

GotSummary(c, r) == Returned(c, r.self, [NoResult EXCEPT !.summary = r.ret])

StatsSummary ==
  /\ GotSummary(Called("stats_summary", <<>>, <<>>, "", 0, None),
                stats_summary(cache, now))
  /\ UNCHANGED tally

\* a request for questions; response: what the model answers if it is asked
Generated(job_role, job_description, num_questions, difficulty, response, r) ==
     /\ cache' = r.self
     /\ before' = cache
     /\ call' = [ op |-> "generate_smart_questions", job_role |-> job_role,
                  job_description |-> job_description, difficulty |-> difficulty,
                  threshold |-> SmartThreshold, questions |-> response,
                  num_questions |-> num_questions ]
     /\ result' = [NoResult EXCEPT !.payload = Some(r.ret), !.tag = r.strategy,
                                   !.src = r.src]
     /\ tally' = [tally EXCEPT
                    !.cache_stats.total_requests = @ + 1,
                    !.cache_stats.cache_hits = @ + r.cache_hits,
                    !.cache_stats.api_calls = @ + r.api_calls,
                    !.prev = tally.last,
                    !.last = [ job_role |-> job_role,
                               job_description |-> job_description,
                               difficulty |-> difficulty,
                               num_questions |-> num_questions,
                               fetched |-> r.fetched, saved |-> r.saved,
                               at |-> now ]]
     /\ UNCHANGED <<now, callers>>

GenerateSmartQuestions(job_role, job_description, num_questions, difficulty, response) ==
  Generated(job_role, job_description, num_questions, difficulty, response,
            generate_smart_questions(cache, response, job_role, job_description,
                                     num_questions, difficulty, now))

\* the cache's scorer is asked for the score of two jobs
CalculateSimilarity(job1, job2) ==
  /\ call' = [ op |-> "calculate_similarity", job_role |-> job1.role,
               job_description |-> job1.desc, job_role2 |-> job2.role,
               job_description2 |-> job2.desc ]
  /\ result' = [NoResult EXCEPT
                  !.score = calculate_similarity(job1.role, job1.desc,
                                                 job2.role, job2.desc)]
  /\ before' = cache
  /\ UNCHANGED <<cache, now, tally, callers>>

Scored(c, r) ==
  /\ call' = c
  /\ result' = [ role_score |-> r.role_score, level_score |-> r.level_score,
                 domain_score |-> r.domain_score ]
                @@ [NoResult EXCEPT !.score = r.final_score, !.tag = r.reason]
  /\ before' = cache
  /\ UNCHANGED <<cache, now, tally, callers>>

\* SimilarityEngine is asked for the score of two jobs
EngineCalculateSimilarity(job1, job2) ==
  Scored([ op |-> "SimilarityEngine.calculate_similarity", job_role |-> job1.role,
           job_description |-> job1.desc, job_role2 |-> job2.role,
           job_description2 |-> job2.desc ],
         engine_calculate_similarity(job1.role, job1.desc, job2.role, job2.desc))

\* the clock advances between two calls
Tick ==
  /\ now' = now + 1
  /\ call' = [NoCall EXCEPT !.op = "tick"]
  /\ result' = NoResult
  /\ before' = cache
  /\ UNCHANGED <<cache, tally, callers>>

(* ----------------------------- two callers ---------------------------- *)
\* The class takes no lock.  Two threads in its methods run them line by
\* line, and a line d[k] += v is a load of d[k] and a store of d[k], with the
\* other thread free to run in between.  `del d[k]`, `k in d` and d[k] are
\* one step each.

\* the caller L moved to line pc; returned; was ended by an exception
Goto(L, pc) == [L EXCEPT !.pc = pc, !.mid = FALSE]
Return(L, ret, score) == [Goto(L, "done") EXCEPT !.ret = ret, !.score = score]
Raise(L, exc) == [Goto(L, "done") EXCEPT !.raised = exc]

\* caller c has run one step: it is now L and the cache is self
Stepped(c, L, self) ==
  /\ callers' = [callers EXCEPT ![c] = L]
  /\ cache' = self
  /\ UNCHANGED <<before, now, call, result, tally>>

\* self.stats[name] += by at line pc, followed by line next
AddStat(c, L, pc, name, by, next) ==
  \/ /\ L.pc = pc /\ ~L.mid
     /\ Stepped(c, [L EXCEPT !.loaded = cache.stats[name], !.mid = TRUE], cache)
  \/ /\ L.pc = pc /\ L.mid
     /\ Stepped(c, Goto(L, next), [cache EXCEPT !.stats[name] = L.loaded + by])

\* entry['access_count'] += 1 at line pc (168 and 209), followed by line next
AddAccess(c, L, pc, next) ==
  \/ /\ L.pc = pc /\ ~L.mid
     /\ Stepped(c, [L EXCEPT !.loaded = cache.heap[L.entry].access_count,
                             !.mid = TRUE], cache)
  \/ /\ L.pc = pc /\ L.mid
     /\ Stepped(c, Goto(L, next),
                [cache EXCEPT !.heap[L.entry].access_count = L.loaded + 1])

\* del self.questions_cache[key] by caller L, followed by line next: KeyError
\* when the key is not in the map
DelQuestions(c, L, key, next) ==
  IF key \in DOMAIN cache.questions_cache
  THEN Stepped(c, next, [cache EXCEPT !.questions_cache = DictDel(@, {key})])
  ELSE Stepped(c, Raise(L, "KeyError"), cache)

\* get_exact_questions, a line at a time
ExactStep(c, L, fingerprint) ==
  \/ /\ L.pc = "155"
     /\ Stepped(c, IF fingerprint \notin DOMAIN cache.questions_cache
                   THEN Return(L, None, 0) ELSE Goto(L, "158"), cache)
  \/ /\ L.pc = "158"
     /\ Stepped(c, IF fingerprint \notin DOMAIN cache.questions_cache
                   THEN Raise(L, "KeyError")
                   ELSE [Goto(L, "160") EXCEPT
                           !.entry = cache.questions_cache[fingerprint]], cache)
  \/ /\ L.pc = "160"
     /\ Stepped(c, Goto(L, IF is_expired(cache.heap[L.entry], now)
                           THEN "161" ELSE "165"), cache)
  \/ /\ L.pc = "161"
     /\ DelQuestions(c, L, fingerprint, Goto(L, "162"))
  \/ AddStat(c, L, "162", "cache_misses", 1, "done")
  \/ /\ L.pc = "165"
     /\ Stepped(c, IF cache.heap[L.entry].difficulty # L.difficulty
                   THEN Return(L, None, 0) ELSE Goto(L, "168"), cache)
  \/ AddAccess(c, L, "168", "169")
  \/ AddStat(c, L, "169", "exact_hits", 1, "170")
  \/ AddStat(c, L, "170", "api_calls_saved", 2, "171")
  \/ AddStat(c, L, "171", "cost_saved", 10, "174")
  \/ /\ L.pc = "174"
     /\ Stepped(c, Return(L, Some(cache.heap[L.entry].questions), 0), cache)

\* lines 178-205 of get_similar_questions: the loop has found best; it reads
\* the pool and writes nothing, and is taken as one step
Scanned(c, L, best) ==
  Stepped(c, IF best.best_entry = 0 \/ best.best_score < L.threshold
             THEN Goto(L, "206")
             ELSE [Goto(L, "209") EXCEPT
                     !.item = best.best_entry, !.score = best.best_score,
                     !.entry = cache.similar_pool[best.best_entry].entry],
          cache)

\* get_similar_questions, a line at a time
SimilarStep(c, L) ==
  \/ /\ L.pc = "182"
     /\ Scanned(c, L, scan_pool(cache, L.job_role, L.job_description, L.difficulty,
                                1, [best_score |-> 0, best_entry |-> 0]))
  \/ AddStat(c, L, "206", "cache_misses", 1, "done")
  \/ AddAccess(c, L, "209", "210")
  \/ /\ L.pc = "210"
     /\ Stepped(c, Goto(L, "219"),
                [cache EXCEPT !.similar_pool[L.item].accessed_at = now])
  \/ AddStat(c, L, "219", "similar_hits", 1, "220")
  \/ AddStat(c, L, "220", "api_calls_saved", 1, "221")
  \/ AddStat(c, L, "221", "cost_saved", savings(L.score), "224")
  \/ /\ L.pc = "224"
     /\ Stepped(c, Return(L, Some(cache.heap[L.entry].questions), L.score), cache)

\* _cleanup_expired, a line at a time; the keys of line 109 are deleted in
\* the order the list holds them, here any order
SweepStep(c, L) ==
  \/ /\ L.pc = "109"
     /\ Stepped(c, [Goto(L, "110") EXCEPT
                      !.keys = {k \in DOMAIN cache.questions_cache :
                                  is_expired(cache.heap[cache.questions_cache[k]], now)}],
                cache)
  \/ /\ L.pc = "110"
     /\ \E k \in L.keys : DelQuestions(c, L, k, [L EXCEPT !.keys = @ \ {k}])
  \/ /\ L.pc = "110" /\ L.keys = {}
     /\ Stepped(c, Goto(L, "done"),   \* lines 113-115, as one step
                [cache EXCEPT !.analysis_cache =
                   DictDel(@, {k \in DOMAIN cache.analysis_cache :
                                 is_expired(cache.analysis_cache[k], now)})])

\* one step of caller c
Step(c) ==
  \/ /\ callers[c].op = "get_exact_questions"
     /\ ExactStep(c, callers[c],
                  _create_fingerprint(callers[c].job_role, callers[c].job_description))
  \/ /\ callers[c].op = "get_similar_questions"
     /\ SimilarStep(c, callers[c])
  \/ /\ callers[c].op = "_cleanup_expired"
     /\ SweepStep(c, callers[c])

\* a thread calls get_exact_questions, get_similar_questions, _cleanup_expired
Enter(op, pc, in, threshold) ==
  [Idle EXCEPT !.op = op, !.pc = pc, !.job_role = in.job.role,
               !.job_description = in.job.desc, !.difficulty = in.difficulty,
               !.threshold = threshold]

\* two threads make the calls first and second at the same time
Begin(first, second) ==
  /\ \A c \in Threads : callers[c] = Idle
  /\ callers' = [c \in Threads |-> IF c = 1 THEN first ELSE second]
  /\ before' = cache
  /\ call' = [NoCall EXCEPT !.op = "concurrent"]
  /\ result' = NoResult
  /\ UNCHANGED <<cache, now, tally>>

(* ---------------------------- specifications --------------------------- *)
\* hits + misses counted so far
Calls == cache.stats.exact_hits + cache.stats.similar_hits
           + cache.stats.cache_misses

\* the work done so far: entries saved, lookups counted, clock ticks
Steps == Len(cache.heap) + Calls + now

\* The question cache under every lookup.
Next ==
  \/ \E in \in SaveInputs :
       /\ Steps < MaxSteps
       /\ SaveQuestions(in.questions, in.job.role, in.job.desc, in.difficulty)
  \/ \E in \in QueryInputs :
       /\ Steps < MaxSteps
       /\ GetExactQuestions(in.job.role, in.job.desc, in.difficulty)
  \/ \E in \in QueryInputs, threshold \in Thresholds :
       /\ Steps < MaxSteps
       /\ GetSimilarQuestions(in.job.role, in.job.desc, in.difficulty, threshold)
  \/ \E in \in QueryInputs :
       /\ Steps < MaxSteps
       /\ GetSmartResponse(in.job.role, in.job.desc, in.difficulty)
  \/ StatsSummary
  \/ Steps < MaxSteps /\ Tick

Spec == Init /\ [][Next]_vars

\* the arguments of the runs that read one entry many times
HotSaveInputs ==
  { [job |-> JobA, difficulty |-> "Easy", questions |-> <<"q1">>],
    [job |-> JobB, difficulty |-> "Easy", questions |-> <<"q3">>] }
HotQueryInputs ==
  { [job |-> JobA2, difficulty |-> "Easy"],
    [job |-> JobB, difficulty |-> "Easy"] }

\* Saves, similarity hits and clock ticks: the pool fills and is cut.
NextPool ==
  \/ \E in \in SaveInputs :
       /\ Steps < MaxPoolSteps
       /\ SaveQuestions(in.questions, in.job.role, in.job.desc, in.difficulty)
  \/ \E in \in QueryInputs, threshold \in Thresholds :
       /\ Steps < MaxPoolSteps
       /\ GetSimilarQuestions(in.job.role, in.job.desc, in.difficulty, threshold)
  \/ Steps < MaxPoolSteps /\ Tick

SpecPool == Init /\ [][NextPool]_vars

\* Many lookups of few entries at one clock reading.
NextHot ==
  \/ \E in \in HotSaveInputs :
       /\ Steps < MaxHotSteps
       /\ Len(cache.heap) < 2
       /\ SaveQuestions(in.questions, in.job.role, in.job.desc, in.difficulty)
  \/ \E in \in HotQueryInputs :
       /\ Steps < MaxHotSteps
       /\ GetExactQuestions(in.job.role, in.job.desc, in.difficulty)
  \/ \E in \in HotQueryInputs, threshold \in Thresholds :
       /\ Steps < MaxHotSteps
       /\ GetSimilarQuestions(in.job.role, in.job.desc, in.difficulty, threshold)

SpecHot == Init /\ [][NextHot]_vars

\* the calls made and clock ticks seen by the service so far
ServiceSteps ==
  Len(cache.heap) + Cardinality(DOMAIN cache.analysis_cache) + tally.requests
    + tally.lookups + cache.stats.total_api_calls + now

\* The calls llm_service.py makes: analyses and questions are looked up, and
\* on a miss generated, saved and recorded.
NextService ==
  \/ \E in \in SaveInputs :
       /\ ServiceSteps < MaxServiceSteps
       /\ SaveQuestions(in.questions, in.job.role, in.job.desc, in.difficulty)
  \/ \E in \in QueryInputs :
       /\ ServiceSteps < MaxServiceSteps
       /\ GetSmartResponse(in.job.role, in.job.desc, in.difficulty)
  \/ \E job \in Jobs, analysis \in AnalysisPayloads :
       /\ ServiceSteps < MaxServiceSteps
       /\ SaveAnalysis(analysis, job.desc)
  \/ \E job \in Jobs :
       /\ ServiceSteps < MaxServiceSteps
       /\ GetExactAnalysis(job.desc)
  \/ ServiceSteps < MaxServiceSteps /\ RecordApiCall
  \/ StatsSummary
  \/ ServiceSteps < MaxServiceSteps /\ Tick

SpecService == Init /\ [][NextService]_vars

\* Requests that hit and miss one stored entry, and the summary of them.
NextStats ==
  \/ \E in \in HotSaveInputs :
       /\ Len(cache.heap) < 1
       /\ SaveQuestions(in.questions, in.job.role, in.job.desc, in.difficulty)
  \/ \E in \in QueryInputs :
       /\ cache.stats.total_requests < MaxRequests
       /\ GetSmartResponse(in.job.role, in.job.desc, in.difficulty)
  \/ StatsSummary

SpecStats == Init /\ [][NextStats]_vars

\* the payloads saved in the scenario
ScenarioPayloads == {<<"q1">>, <<"q1", "q2">>, <<>>}

\* The end-to-end scenario: the saved job is asked for under both wordings.
NextScenario ==
  \/ \E questions \in ScenarioPayloads :
       /\ Steps < MaxScenarioSteps
       /\ SaveQuestions(questions, BackendDeveloper.role, BackendDeveloper.desc,
                        "Medium")
  \/ \E job \in ScenarioJobs, difficulty \in {"Medium", "Hard"} :
       /\ Steps < MaxScenarioSteps
       /\ GetSmartResponse(job.role, job.desc, difficulty)
  \/ Steps < MaxScenarioSteps /\ Tick

SpecScenario == Init /\ [][NextScenario]_vars

\* the arguments of the runs that use both caches
AnalysisInputs ==
  { [desc |-> JobA.desc, analysis |-> "a1"],
    [desc |-> JobB.desc, analysis |-> "a2"] }
AnalysisQueries == {JobA2.desc, JobB.desc, JobE.desc}

\* the calls made and clock ticks seen so far on both caches
AnalysisSteps ==
  Steps + Cardinality(DOMAIN cache.analysis_cache) + tally.lookups
    + cache.stats.total_api_calls

\* Every lookup, on a cache that holds questions and analyses.
NextAnalysis ==
  \/ \E in \in HotSaveInputs :
       /\ AnalysisSteps < MaxAnalysisSteps
       /\ SaveQuestions(in.questions, in.job.role, in.job.desc, in.difficulty)
  \/ \E in \in AnalysisInputs :
       /\ AnalysisSteps < MaxAnalysisSteps
       /\ SaveAnalysis(in.analysis, in.desc)
  \/ \E job_description \in AnalysisQueries :
       /\ AnalysisSteps < MaxAnalysisSteps
       /\ GetExactAnalysis(job_description)
  \/ \E in \in QueryInputs :
       /\ AnalysisSteps < MaxAnalysisSteps
       /\ GetExactQuestions(in.job.role, in.job.desc, in.difficulty)
  \/ \E in \in QueryInputs, threshold \in {SmartThreshold} :
       /\ AnalysisSteps < MaxAnalysisSteps
       /\ GetSimilarQuestions(in.job.role, in.job.desc, in.difficulty, threshold)
  \/ \E in \in QueryInputs :
       /\ AnalysisSteps < MaxAnalysisSteps
       /\ GetSmartResponse(in.job.role, in.job.desc, in.difficulty)
  \/ AnalysisSteps < MaxAnalysisSteps /\ RecordApiCall
  \/ StatsSummary
  \/ AnalysisSteps < MaxAnalysisSteps /\ Tick

SpecAnalysis == Init /\ [][NextAnalysis]_vars

\* the calls made and clock ticks seen so far on the analysis cache
KeySteps == Cardinality(DOMAIN cache.analysis_cache) + tally.lookups + now

\* Analyses saved and looked up under descriptions around the cut.
NextKeys ==
  \/ \E job_description \in KeyDescs, analysis \in KeyPayloads :
       /\ KeySteps < MaxKeySteps
       /\ SaveAnalysis(analysis, job_description)
  \/ \E job_description \in KeyDescs :
       /\ KeySteps < MaxKeySteps
       /\ GetExactAnalysis(job_description)
  \/ KeySteps < MaxKeySteps /\ Tick

SpecKeys == Init /\ [][NextKeys]_vars

\* the arguments of the runs on jobs that look alike
NormSaveInputs ==
  { [job |-> JobB, difficulty |-> "Easy", questions |-> <<"q3">>],
    [job |-> JobA, difficulty |-> "Easy", questions |-> <<"q1">>],
    [job |-> JobPipeL, difficulty |-> "Easy", questions |-> <<"q2">>] }
NormQueries == {JobB, JobA2, JobTrail, JobLead, JobPipeL, JobPipeR}

\* Exact lookups of jobs saved under another spelling.
NextNorm ==
  \/ \E in \in NormSaveInputs :
       /\ Steps < MaxNormSteps
       /\ SaveQuestions(in.questions, in.job.role, in.job.desc, in.difficulty)
  \/ \E job \in NormQueries, difficulty \in Difficulties :
       /\ Steps < MaxNormSteps
       /\ GetExactQuestions(job.role, job.desc, difficulty)
  \/ Steps < MaxNormSteps /\ Tick

SpecNorm == Init /\ [][NextNorm]_vars

\* requests to the service and what the model would answer
FetchInputs ==
  { [job |-> JobA, difficulty |-> "Easy"],
    [job |-> JobA, difficulty |-> "Hard"],
    [job |-> JobB, difficulty |-> "Easy"] }
NumQuestions == {1, 2}
Responses == {None, Some(<<"q1", "q2">>), Some(<<"bad", "q2">>)}

FetchSteps == tally.cache_stats.total_requests + now

\* Requests for questions through the service, sweeps and clock ticks.
NextFetch ==
  \/ \E in \in FetchInputs, num_questions \in NumQuestions, response \in Responses :
       /\ FetchSteps < MaxFetchSteps
       /\ GenerateSmartQuestions(in.job.role, in.job.desc, num_questions,
                                 in.difficulty, response)
  \/ StatsSummary
  \/ FetchSteps < MaxFetchSteps /\ Tick

SpecFetch == Init /\ [][NextFetch]_vars

\* The two scorers on every pair of jobs.
NextScore ==
  \/ \E job1 \in ScoreJobs, job2 \in ScoreJobs : CalculateSimilarity(job1, job2)
  \/ \E job1 \in ScoreJobs, job2 \in ScoreJobs : EngineCalculateSimilarity(job1, job2)

SpecScore == Init /\ [][NextScore]_vars

\* the calls the two threads make
ThreadQueries ==
  { [job |-> JobA2, difficulty |-> "Easy"],
    [job |-> JobA2, difficulty |-> "Hard"] }
ThreadCalls ==
  {Enter("get_exact_questions", "155", in, 0) : in \in ThreadQueries}
    \cup {Enter("get_similar_questions", "182", in, Percent(75)) : in \in ThreadQueries}
    \cup {[Idle EXCEPT !.op = "_cleanup_expired", !.pc = "109"]}

ThreadSteps == Len(cache.heap) + now
NoCaller == \A c \in Threads : callers[c] = Idle

\* Entries are saved and the clock ticks; then two threads each make one
\* call on the cache, their lines interleaved in every order.
NextThreads ==
  \/ \E in \in HotSaveInputs :
       /\ ThreadSteps < MaxThreadSteps /\ NoCaller
       /\ SaveQuestions(in.questions, in.job.role, in.job.desc, in.difficulty)
  \/ ThreadSteps < MaxThreadSteps /\ NoCaller /\ Tick
  \/ \E first \in ThreadCalls, second \in ThreadCalls : Begin(first, second)
  \/ \E c \in Threads : Step(c)

SpecThreads == Init /\ [][NextThreads]_vars

(* ------------------------------ properties ----------------------------- *)
\* Each handler leaves in `before` the cache it was called on, in `call` its
\* arguments and in `result` what it returned, at the clock reading `now`.

\* the entry stored in the question map for (job_role, job_description), 0 if none
StoredId(c, job_role, job_description) ==
  LET fingerprint == _create_fingerprint(job_role, job_description)
  IN IF fingerprint \in DOMAIN c.questions_cache THEN c.questions_cache[fingerprint] ELSE 0

\* the entry the call's exact lookup is entitled to: stored under the query's
\* fingerprint, unexpired, of the query's difficulty (0 if none)
ExactId ==
  LET id == StoredId(before, call.job_role, call.job_description)
  IN IF id # 0 /\ ~ is_expired(before.heap[id], now)
              /\ before.heap[id].difficulty = call.difficulty
     THEN id ELSE 0

\* C1: whenever the question map holds an unexpired entry of the query's
\* difficulty under the query's fingerprint, get_smart_response returns that
\* entry's payload, whatever it is, with tag "exact_match", and never a pool
\* entry in its place.
C1_ExactBeforeFuzzy ==
  (call.op = "get_smart_response" /\ ExactId # 0)
  => /\ result.tag = "exact_match"
     /\ result.payload = Some(before.heap[ExactId].questions)
     /\ result.src = ExactId

\* C2: save_questions(P, R, D, Diff) immediately followed by
\* get_exact_questions(R, D, Diff) returns exactly P and takes the stored
\* entry's access_count from 0 to 1.  The entry a save has just stored is the
\* one in the map with created_at = now that has never been read.
C2_RoundTrip ==
  LET id == StoredId(before, call.job_role, call.job_description)
  IN (/\ call.op = "get_exact_questions"
      /\ id # 0
      /\ before.heap[id].created_at = now
      /\ before.heap[id].access_count = 0
      /\ before.heap[id].difficulty = call.difficulty)
     => /\ result.payload = Some(before.heap[id].questions)
        /\ cache.heap[id].access_count = 1
        /\ StoredId(cache, call.job_role, call.job_description) = id

\* an exact lookup made right after the save has returned the saved payload
C2_Witness ==
  LET id == StoredId(before, call.job_role, call.job_description)
  IN /\ call.op = "get_exact_questions"
     /\ id # 0
     /\ before.heap[id].created_at = now
     /\ before.heap[id].access_count = 0
     /\ before.heap[id].job_role = call.job_role
     /\ before.heap[id].job_description = call.job_description
     /\ before.heap[id].difficulty = call.difficulty
     /\ before.ttl = 0
     /\ result.payload = Some(before.heap[id].questions)
     /\ cache.heap[id].access_count = 1

\* C3: an entry stored with one difficulty is never returned by
\* get_exact_questions or get_similar_questions called with another
\* difficulty, and such a call leaves its access_count unchanged; an exact
\* lookup that finds the entry under its fingerprint with another difficulty
\* returns None.
C3_DifficultyIsolation ==
  call.op \in {"get_exact_questions", "get_similar_questions", "get_smart_response"}
  => /\ \A id \in 1..Len(before.heap) :
          before.heap[id].difficulty # call.difficulty
          => /\ result.src # id
             /\ cache.heap[id].access_count = before.heap[id].access_count
     /\ LET id == StoredId(before, call.job_role, call.job_description)
        IN (call.op = "get_exact_questions" /\ id # 0
            /\ before.heap[id].difficulty # call.difficulty)
           => result.payload = None

\* a lookup has missed on an unexpired entry of another difficulty that is
\* stored under the query's fingerprint and is in the pool
C3_Witness ==
  LET id == StoredId(before, call.job_role, call.job_description)
  IN /\ call.op \in {"get_exact_questions", "get_similar_questions"}
     /\ id # 0
     /\ before.heap[id].difficulty # call.difficulty
     /\ ~ is_expired(before.heap[id], now)
     /\ \E i \in 1..Len(before.similar_pool) : before.similar_pool[i].entry = id
     /\ result.payload = None
     /\ cache.heap[id].access_count = 0

\* C4: get_exact_questions does not return an entry saved with TTL = 0 or
\* queried after its expires_at: the call returns None and the entry's key
\* is gone from the question map; after a sweep no such entry is in the
\* question map.
C4_Expiry ==
  LET id == StoredId(before, call.job_role, call.job_description)
  IN /\ (/\ call.op = "get_exact_questions"
         /\ id # 0
         /\ (before.ttl = 0 \/ now > before.heap[id].expires_at))
        => /\ result.payload = None
           /\ StoredId(cache, call.job_role, call.job_description) = 0
     /\ call.op = "stats_summary"
        => \A k \in DOMAIN cache.questions_cache :
              ~ (cache.ttl = 0 \/ now > cache.heap[cache.questions_cache[k]].expires_at)

\* the pool items get_similar_questions may return for the call
Eligible ==
  { i \in 1..Len(before.similar_pool) :
      /\ before.similar_pool[i].cache_type = "questions"
      /\ before.heap[before.similar_pool[i].entry].difficulty = call.difficulty
      /\ before.heap[before.similar_pool[i].entry].access_count <= MaxSimilarAccess }

\* the score of pool item i against the call's query
Score(i) ==
  calculate_similarity(call.job_role, call.job_description,
                       before.heap[before.similar_pool[i].entry].job_role,
                       before.heap[before.similar_pool[i].entry].job_description)

\* C5: get_similar_questions returns a hit whenever some eligible candidate
\* scores at least the threshold, a score equal to the threshold included,
\* and a miss whenever every eligible candidate scores below it.
C5_InclusiveThreshold ==
  call.op = "get_similar_questions"
  => (result.payload # None
      <=> \E i \in Eligible : Score(i) >= Percent(call.threshold))

\* the highest score among the eligible pool items (0 if there is none)
BestScore ==
  IF Eligible = {} THEN 0
  ELSE CHOOSE x \in {Score(i) : i \in Eligible} :
         \A i \in Eligible : Score(i) <= x

\* the similarity lookup of get_smart_response finds a candidate
SimilarHit == Eligible # {} /\ BestScore >= Percent(SmartThreshold)

\* C9: the tag of get_smart_response is "exact_match" exactly when the exact
\* lookup hit, "high_similarity" exactly when it missed and the similarity
\* lookup hit with score >= 80, "medium_similarity" exactly when it hit with
\* 65 <= score < 80, "no_match" exactly when both missed; the payload is
\* absent exactly when the tag is "no_match".
C9_SmartTag ==
  call.op = "get_smart_response"
  => /\ result.tag = "exact_match" <=> ExactId # 0
     /\ result.tag = "high_similarity"
          <=> (ExactId = 0 /\ SimilarHit /\ BestScore >= Percent(HighSimilarity))
     /\ result.tag = "medium_similarity"
          <=> (ExactId = 0 /\ SimilarHit /\ BestScore < Percent(HighSimilarity))
     /\ result.tag = "no_match" <=> (ExactId = 0 /\ ~ SimilarHit)
     /\ result.payload = None <=> result.tag = "no_match"

\* C6: get_similar_questions never returns the payload of an entry whose
\* access_count is above 5 when the call is made, be it the best-scoring
\* candidate; the count is the one exact hits raise too.
C6_SimilarityExclusion ==
  /\ (call.op = "get_similar_questions" /\ result.src # 0)
     => before.heap[result.src].access_count <= MaxSimilarAccess
  /\ (call.op = "get_exact_questions" /\ result.src # 0)
     => cache.heap[result.src].access_count
          = before.heap[result.src].access_count + 1

\* a similarity lookup has passed over the best-scoring item of the pool, whose
\* entry had been read more than 5 times, some of them through exact hits
C6_Witness ==
  /\ call.op = "get_similar_questions"
  /\ before.stats.exact_hits > 0
  /\ before.stats.similar_hits > 0
  /\ \E i \in 1..Len(before.similar_pool) :
       /\ before.heap[before.similar_pool[i].entry].access_count > MaxSimilarAccess
       /\ before.heap[before.similar_pool[i].entry].difficulty = call.difficulty
       /\ Score(i) >= Percent(call.threshold)
       /\ \A j \in 1..Len(before.similar_pool) : Score(j) <= Score(i)
       /\ result.src # before.similar_pool[i].entry

\* C7: after every operation the similarity pool holds at most
\* max_cache_size items.
C7_PoolBound == Len(cache.similar_pool) <= cache.max_cache_size

\* a save has found the pool full and left it full
C7_Witness ==
  /\ call.op = "save_questions"
  /\ Len(before.similar_pool) = before.max_cache_size
  /\ Len(cache.similar_pool) = cache.max_cache_size

\* the pool a save has to cut: the old items and the one it appends
Offered ==
  Append(before.similar_pool,
         [fingerprint |-> result.key, entry |-> Len(cache.heap),
          accessed_at |-> now, cache_type |-> "questions"])

\* the items of Offered the save removed
Removed ==
  { i \in 1..Len(Offered) :
      \A j \in 1..Len(cache.similar_pool) : cache.similar_pool[j] # Offered[i] }

\* C8: a save_questions that makes the pool exceed max_cache_size removes
\* exactly the surplus, taking the items with the oldest accessed_at: every
\* item kept is one that was offered, and no removed item has a later
\* accessed_at than a kept one.
C8_EvictionVictim ==
  (call.op = "save_questions" /\ Len(Offered) > before.max_cache_size)
  => /\ Cardinality(Removed) = Len(Offered) - before.max_cache_size
     /\ \A j \in 1..Len(cache.similar_pool) :
          \E i \in 1..Len(Offered) : Offered[i] = cache.similar_pool[j]
     /\ \A i \in Removed, j \in 1..Len(cache.similar_pool) :
          Offered[i].accessed_at <= cache.similar_pool[j].accessed_at

\* a save has removed an item that was never touched and kept an item saved
\* no later that a similarity hit had touched since
C8_Witness ==
  /\ call.op = "save_questions"
  /\ \E i \in Removed, j \in 1..Len(cache.similar_pool) :
       /\ Offered[i].accessed_at < cache.similar_pool[j].accessed_at
       /\ cache.similar_pool[j].accessed_at
            > cache.heap[cache.similar_pool[j].entry].created_at
       /\ cache.heap[cache.similar_pool[j].entry].created_at
            <= cache.heap[Offered[i].entry].created_at

\* the hit rate, in tenths of a percent, of hits out of requests
Rate(hits, requests) ==
  IF requests = 0 THEN 0 ELSE RoundHalfEven(hits * 1000, requests)

\* C10: stats_summary reports the hit rate (N+M)/T, and 0 when T = 0, where
\* T requests were made, N satisfied by an exact hit and M by a similarity
\* hit; the requests are the get_smart_response calls, or those and the
\* get_exact_analysis calls.
C10_StatsConsistency ==
  call.op = "stats_summary"
  => \/ result.summary.cache_hit_rate
          = Rate(tally.exact + tally.similar, tally.requests)
     \/ result.summary.cache_hit_rate
          = Rate(tally.exact + tally.found + tally.similar,
                 tally.requests + tally.lookups)

\* the counters the label is computed from
Hits == cache.stats.exact_hits + cache.stats.similar_hits
Requests == cache.stats.total_requests

\* C11: the label returned with stats_summary is "No data yet" when
\* total_requests = 0, otherwise Excellent when hits / total_requests >= 80%,
\* Good in [60%, 80%), Fair in [40%, 60%), Warming-up below 40%.
C11_EfficiencyLabel ==
  call.op = "stats_summary"
  => /\ result.summary.cache_efficiency = "No data yet" <=> Requests = 0
     /\ result.summary.cache_efficiency = "Excellent (80%+)"
          <=> (Requests > 0 /\ 100 * Hits >= 80 * Requests)
     /\ result.summary.cache_efficiency = "Good (60-80%)"
          <=> (Requests > 0 /\ 100 * Hits >= 60 * Requests
                            /\ 100 * Hits < 80 * Requests)
     /\ result.summary.cache_efficiency = "Fair (40-60%)"
          <=> (Requests > 0 /\ 100 * Hits >= 40 * Requests
                            /\ 100 * Hits < 60 * Requests)
     /\ result.summary.cache_efficiency = "Warming up (<40%)"
          <=> (Requests > 0 /\ 100 * Hits < 40 * Requests)

\* a summary has been taken with the hit rate exactly 60%
C11_Witness ==
  /\ call.op = "stats_summary"
  /\ Requests = 5
  /\ Hits = 3
  /\ result.summary.cache_efficiency = "Good (60-80%)"

\* the call asks for the scenario's query
AsksBackendEngineer ==
  /\ call.op = "get_smart_response"
  /\ call.job_role = BackendEngineer.role
  /\ call.job_description = BackendEngineer.desc
  /\ call.difficulty = "Medium"

\* the cache held one entry when the call was made: a non-empty list saved
\* for the scenario's job, read at most 5 times
HeldBackendDeveloper ==
  /\ Len(before.heap) = 1
  /\ before.heap[1].job_role = BackendDeveloper.role
  /\ before.heap[1].job_description = BackendDeveloper.desc
  /\ before.heap[1].difficulty = "Medium"
  /\ before.heap[1].questions # <<>>
  /\ before.heap[1].access_count <= MaxSimilarAccess

QuestionLookups ==
  {"get_exact_questions", "get_similar_questions", "get_smart_response"}

\* the analysis entry stored for job_description in cache c, unexpired at the
\* clock reading of the call
LiveAnalysis(c, job_description) ==
  /\ _create_analysis_key(job_description) \in DOMAIN c.analysis_cache
  /\ now <= c.analysis_cache[_create_analysis_key(job_description)].expires_at

\* C13: save_analysis adds nothing to the similarity pool; get_exact_analysis(D)
\* returns a payload only when an unexpired analysis entry is stored under
\* the analysis key of D, and then that entry's; no question lookup returns
\* an analysis payload.
C13_AnalysisExactOnly ==
  /\ call.op = "save_analysis"
     => /\ cache.similar_pool = before.similar_pool
        /\ cache.heap = before.heap
        /\ cache.questions_cache = before.questions_cache
  /\ (call.op = "get_exact_analysis" /\ result.payload # None)
     => /\ LiveAnalysis(before, call.job_description)
        /\ result.payload
             = Some(<<before.analysis_cache[
                        _create_analysis_key(call.job_description)].analysis>>)
  /\ (call.op \in QuestionLookups /\ result.payload # None)
     => /\ result.src \in 1..Len(before.heap)
        /\ before.heap[result.src].cache_type = "questions"
        /\ result.payload = Some(before.heap[result.src].questions)
        /\ \A k \in DOMAIN before.analysis_cache :
             result.payload # Some(<<before.analysis_cache[k].analysis>>)
  /\ \A i \in 1..Len(cache.similar_pool) :
       cache.similar_pool[i].cache_type = "questions"

\* an analysis has been saved beside a pooled question entry, and a question
\* lookup has then been answered from the pool
C13_Witness ==
  /\ call.op = "get_similar_questions"
  /\ result.payload # None
  /\ before.analysis_cache # EmptyDict
  /\ \E k \in DOMAIN before.analysis_cache :
       now <= before.analysis_cache[k].expires_at

\* the first 500 characters of a description, lower-cased and trimmed; the
\* descriptions are those given and the prefixes the entries keep of them
NormalPrefixes ==
  [d \in Descriptions \cup {Take(x, AnalysisPrefix) : x \in Descriptions} |->
     strip(lower(Take(d, AnalysisPrefix)))]
NormalPrefix(job_description) == NormalPrefixes[job_description]

\* the analysis entries of cache c saved under a description with the same
\* normalized first 500 characters (an entry keeps the prefix it was saved with)
SameAnalysis(c, job_description) ==
  { k \in DOMAIN c.analysis_cache :
      NormalPrefix(c.analysis_cache[k].job_description)
        = NormalPrefix(job_description) }

\* C14: for descriptions D1, D2 whose first 500 characters are equal after
\* lower-casing and trimming, save_analysis(P, D1) followed within the TTL by
\* get_exact_analysis(D2) returns P; descriptions that differ within the
\* first 500 normalized characters never share an entry.
C14_AnalysisKey ==
  /\ call.op = "get_exact_analysis"
     => /\ \A k \in SameAnalysis(before, call.job_description) :
             now <= before.analysis_cache[k].expires_at
             => result.payload = Some(<<before.analysis_cache[k].analysis>>)
        /\ result.payload # None
           => \E k \in SameAnalysis(before, call.job_description) :
                result.payload = Some(<<before.analysis_cache[k].analysis>>)
  /\ call.op = "save_analysis"
     => \E k \in SameAnalysis(cache, call.job_description) :
          /\ cache.analysis_cache[k].analysis = call.questions.val[1]
          /\ cache.analysis_cache[k].created_at = now
          /\ \A j \in DOMAIN before.analysis_cache :
               j # k => /\ j \in DOMAIN cache.analysis_cache
                        /\ cache.analysis_cache[j] = before.analysis_cache[j]
  /\ \A k \in DOMAIN cache.analysis_cache :
       Cardinality(SameAnalysis(cache, cache.analysis_cache[k].job_description)) = 1

\* an analysis saved under one description has been returned for another
\* one, longer than 500 characters, whose first 500 characters differ from
\* it before they are normalized, beside an entry that differs at the cut
C14_Witness ==
  /\ call.op = "get_exact_analysis"
  /\ result.payload # None
  /\ Len(call.job_description) > AnalysisPrefix
  /\ Cardinality(DOMAIN before.analysis_cache) = 2
  /\ \E k \in SameAnalysis(before, call.job_description) :
       before.analysis_cache[k].job_description
         # Take(call.job_description, AnalysisPrefix)
  /\ \E k \in DOMAIN before.analysis_cache :
       /\ k \notin SameAnalysis(before, call.job_description)
       /\ Len(before.analysis_cache[k].job_description) = AnalysisPrefix

\* a role or a description, lower-cased and trimmed
Normal(text) == strip(lower(text))

\* the entries of cache c saved for the call's role and description, up to
\* lower-casing and trimming
SameJob(c) ==
  { id \in 1..Len(c.heap) :
      /\ Normal(c.heap[id].job_role) = Normal(call.job_role)
      /\ Normal(c.heap[id].job_description) = Normal(call.job_description) }

\* the last of them to be saved (0 if there is none)
LastSameJob(c) ==
  IF SameJob(c) = {} THEN 0
  ELSE CHOOSE id \in SameJob(c) : \A other \in SameJob(c) : other <= id

\* C15: two requests whose role and description are equal after lower-casing
\* and trimming map to the same question-map key, so a save under one is an
\* exact hit for the other at the same difficulty; requests whose normalized
\* text differs map to different keys, so no lookup is answered from a save
\* made for another normalized role or description.
C15_Fingerprint ==
  call.op = "get_exact_questions"
  => /\ (/\ LastSameJob(before) # 0
         /\ before.heap[LastSameJob(before)].difficulty = call.difficulty
         /\ now <= before.heap[LastSameJob(before)].expires_at)
        => result.payload = Some(before.heap[LastSameJob(before)].questions)
     /\ result.src # 0 => result.src \in SameJob(before)

\* the keys of the question map and of the analysis map of cache c whose
\* entry's expires_at is not earlier than the current time
LiveQuestions(c) ==
  {k \in DOMAIN c.questions_cache : c.heap[c.questions_cache[k]].expires_at >= now}
LiveAnalyses(c) ==
  {k \in DOMAIN c.analysis_cache : c.analysis_cache[k].expires_at >= now}

\* C16: at a stats_summary snapshot, which sweeps first, neither map holds an
\* entry whose expires_at is earlier than the current time, every unexpired
\* entry is still there and unchanged, and questions_cached and
\* analysis_cached count the unexpired entries only.
C16_Sweep ==
  call.op = "stats_summary"
  => /\ DOMAIN cache.questions_cache = LiveQuestions(before)
     /\ DOMAIN cache.analysis_cache = LiveAnalyses(before)
     /\ \A k \in LiveQuestions(before) :
          cache.questions_cache[k] = before.questions_cache[k]
     /\ \A k \in LiveAnalyses(before) :
          cache.analysis_cache[k] = before.analysis_cache[k]
     /\ cache.heap = before.heap
     /\ result.summary.questions_cached = Cardinality(LiveQuestions(before))
     /\ result.summary.analysis_cached = Cardinality(LiveAnalyses(before))

\* a snapshot has swept an expired analysis away and kept an unexpired entry,
\* one at its expires_at
C16_Witness ==
  /\ call.op = "stats_summary"
  /\ DOMAIN before.analysis_cache # LiveAnalyses(before)
  /\ \E k \in LiveQuestions(before) :
       before.heap[before.questions_cache[k]].expires_at = now
  /\ result.summary.analysis_cached < Cardinality(DOMAIN before.analysis_cache)
  /\ result.summary.questions_cached > 0

\* entry e is entry d but for its access_count, which is no lower
SameButCount(d, e) ==
  /\ e = [d EXCEPT !.access_count = e.access_count]
  /\ e.access_count >= d.access_count

\* C17: no cache operation changes the payload, role, description, difficulty,
\* created_at or expires_at of an entry once it is created; a save_analysis
\* replaces the entry under its key by a new one and leaves the others; the
\* lookups change nothing of an entry but access_count, and nothing of a pool
\* item but accessed_at.
C17_PayloadImmutable ==
  /\ \A id \in 1..Len(before.heap) :
       /\ id <= Len(cache.heap)
       /\ SameButCount(before.heap[id], cache.heap[id])
  /\ \A k \in DOMAIN before.analysis_cache \cap DOMAIN cache.analysis_cache :
       \/ SameButCount(before.analysis_cache[k], cache.analysis_cache[k])
       \/ /\ call.op = "save_analysis"
          /\ k = _create_analysis_key(call.job_description)
  /\ call.op \in QuestionLookups \cup {"get_exact_analysis"}
     => /\ Len(cache.heap) = Len(before.heap)
        /\ Len(cache.similar_pool) = Len(before.similar_pool)
        /\ \A i \in 1..Len(before.similar_pool) :
             cache.similar_pool[i]
               = [before.similar_pool[i] EXCEPT
                    !.accessed_at = cache.similar_pool[i].accessed_at]
  /\ call.op \in {"stats_summary", "record_api_call", "tick"}
     => /\ cache.heap = before.heap
        /\ cache.similar_pool = before.similar_pool

\* a similarity hit has raised an entry's access_count and moved its pool
\* item's accessed_at, after an exact hit on the same entry
C17_Witness ==
  /\ call.op = "get_similar_questions"
  /\ result.src # 0
  /\ before.heap[result.src].access_count > 0
  /\ cache.heap[result.src].access_count > before.heap[result.src].access_count
  /\ \E i \in 1..Len(before.similar_pool) :
       /\ before.similar_pool[i].entry = result.src
       /\ cache.similar_pool[i].accessed_at > before.similar_pool[i].accessed_at

\* no pool item is eligible for the call and scores at least its threshold
NoCandidate == \A i \in Eligible : Score(i) < Percent(call.threshold)

\* C18: a lookup that finds nothing returns an empty value: None from
\* get_exact_questions when the key is unknown, the entry expired or of
\* another difficulty; None from get_exact_analysis when the key is unknown
\* or the entry expired; (None, 0) from get_similar_questions when the pool
\* is empty or holds no candidate; (None, "no_match") from get_smart_response
\* when both lookups find nothing.
C18_NotFoundIsValue ==
  /\ (call.op = "get_exact_questions" /\ ExactId = 0)
     => result = NoResult
  /\ (call.op = "get_exact_analysis" /\ ~ LiveAnalysis(before, call.job_description))
     => result = NoResult
  /\ (call.op = "get_similar_questions" /\ NoCandidate)
     => result = NoResult
  /\ (call.op = "get_smart_response" /\ ExactId = 0 /\ NoCandidate)
     => result = [NoResult EXCEPT !.tag = "no_match"]
  /\ call.op \in QuestionLookups
     => (result.payload = None <=> result.src = 0)

\* get_exact_questions has found the entry of its key expired and returned
\* None
C18_Witness ==
  /\ call.op = "get_exact_questions"
  /\ StoredId(before, call.job_role, call.job_description) # 0
  /\ is_expired(before.heap[StoredId(before, call.job_role, call.job_description)], now)
  /\ StoredId(cache, call.job_role, call.job_description) = 0
  /\ result.payload = None

\* the questions the call's response yields
Fetched == IF call.questions = None THEN <<>>
           ELSE valid_questions(call.questions.val, call.num_questions)

\* the request before the call asked for the same role, description and
\* difficulty, missed, fetched and saved, and its entry's TTL has not run out
SavedJustBefore ==
  /\ tally.prev.saved # None
  /\ tally.prev.job_role = call.job_role
  /\ tally.prev.job_description = call.job_description
  /\ tally.prev.difficulty = call.difficulty
  /\ now <= tally.prev.at + before.ttl

Job1 == [role |-> call.job_role, desc |-> call.job_description]
Job2 == [role |-> call.job_role2, desc |-> call.job_description2]

\* C20: the score of SimpleSimilarityCalculator.calculate_similarity and the
\* score of SimilarityEngine.calculate_similarity are within [0, 100] for
\* every pair of jobs; when a job has no keyword the calculator's score is 50,
\* and when a job has no role type (no domain) the engine's role score
\* (domain score) is 50.
C20_ScorerRange ==
  /\ call.op = "calculate_similarity"
     => /\ 0 <= result.score /\ result.score <= Percent(100)
        /\ (keywords[Job1] = {} \/ keywords[Job2] = {})
           => result.score = Percent(50)
  /\ call.op = "SimilarityEngine.calculate_similarity"
     => /\ 0 <= result.score /\ result.score <= EnginePercent(100)
        /\ result.score = 4 * result.role_score + 3 * result.level_score
                            + 3 * result.domain_score
        /\ (features[Job1].role_types = {} \/ features[Job2].role_types = {})
           => result.role_score = 50 * FeatureUnit
        /\ (features[Job1].domains = {} \/ features[Job2].domains = {})
           => result.domain_score = 50 * FeatureUnit

\* the engine has scored a job without role types and domains against a job
\* that has both
C20_Witness ==
  /\ call.op = "SimilarityEngine.calculate_similarity"
  /\ features[Job1].role_types = {} /\ features[Job1].domains = {}
  /\ features[Job2].role_types # {} /\ features[Job2].domains # {}
  /\ result.role_score = 50 * FeatureUnit
  /\ result.score < EnginePercent(100)

\* C21: whenever get_similar_questions returns a hit, the payload is that of
\* a pool entry of the query's difficulty with access_count <= 5 whose score
\* is the highest among all such entries, and the returned score is that
\* highest score.
C21_BestCandidate ==
  (call.op = "get_similar_questions" /\ result.payload # None)
  => /\ result.score = BestScore
     /\ \E i \in Eligible :
          /\ before.similar_pool[i].entry = result.src
          /\ Score(i) = BestScore
          /\ result.payload = Some(before.heap[result.src].questions)

\* a hit on the second of two eligible pool items, the first scoring lower
C21_Witness ==
  /\ call.op = "get_similar_questions"
  /\ result.payload # None
  /\ \E i \in Eligible, j \in Eligible :
       /\ i < j
       /\ Score(i) < Score(j)
       /\ Score(i) >= Percent(call.threshold)
       /\ before.similar_pool[j].entry = result.src

\* the counters C22 speaks of are as they were, but for name, which is n higher
CountersBut(name, n) ==
  /\ cache.stats.similar_hits
       = before.stats.similar_hits + (IF name = "similar_hits" THEN n ELSE 0)
  /\ cache.stats.cache_misses
       = before.stats.cache_misses + (IF name = "cache_misses" THEN n ELSE 0)
  /\ cache.stats.exact_hits = before.stats.exact_hits
  /\ cache.stats.total_requests = before.stats.total_requests
  /\ cache.stats.total_api_calls = before.stats.total_api_calls

\* C22: a get_similar_questions hit raises the winning entry's access_count
\* by 1, sets the winning pool item's accessed_at to the current time and
\* raises similar_hits by 1; every other entry and pool item, both maps,
\* exact_hits and cache_misses are as before.  A miss changes nothing but
\* cache_misses, which is 1 higher.
C22_SimilarHitEffects ==
  /\ (call.op = "get_similar_questions" /\ result.payload # None)
     => /\ cache.heap = [before.heap EXCEPT ![result.src].access_count = @ + 1]
        /\ \E i \in 1..Len(before.similar_pool) :
             /\ before.similar_pool[i].entry = result.src
             /\ cache.similar_pool
                  = [before.similar_pool EXCEPT ![i].accessed_at = now]
        /\ cache.questions_cache = before.questions_cache
        /\ cache.analysis_cache = before.analysis_cache
        /\ CountersBut("similar_hits", 1)
  /\ (call.op = "get_similar_questions" /\ result.payload = None)
     => cache = [before EXCEPT !.stats.cache_misses = @ + 1]

\* a hit, after a clock tick, on one of two pool items
C22_Witness ==
  /\ call.op = "get_similar_questions"
  /\ result.payload # None
  /\ Len(before.similar_pool) = 2
  /\ \E i \in 1..2 :
       /\ before.similar_pool[i].entry = result.src
       /\ before.similar_pool[i].accessed_at < now
       /\ cache.similar_pool[i].accessed_at = now

\* C23: neither get_similar_questions nor get_smart_response returns the
\* payload of an entry whose expires_at is earlier than the current time.
C23_ExpiredUnusable ==
  (/\ call.op \in {"get_similar_questions", "get_smart_response"}
   /\ result.payload # None)
  => ~ (before.heap[result.src].expires_at < now)

\* C24: every similarity-pool item refers to the entry stored in the question
\* map under the item's fingerprint, no two pool items have the same
\* fingerprint, and a get_similar_questions hit is the entry the map held
\* under its fingerprint.
C24_PoolMapAgree ==
  /\ \A i \in 1..Len(cache.similar_pool) :
       /\ cache.similar_pool[i].fingerprint \in DOMAIN cache.questions_cache
       /\ cache.questions_cache[cache.similar_pool[i].fingerprint]
            = cache.similar_pool[i].entry
  /\ \A i, j \in 1..Len(cache.similar_pool) :
       cache.similar_pool[i].fingerprint = cache.similar_pool[j].fingerprint
       => i = j
  /\ (call.op = "get_similar_questions" /\ result.payload # None)
     => /\ before.heap[result.src].fingerprint \in DOMAIN before.questions_cache
        /\ before.questions_cache[before.heap[result.src].fingerprint] = result.src

\* the entry a save finds stored under its fingerprint (0 if none)
Replaced == StoredId(before, call.job_role, call.job_description)

\* C25: a save_questions for (R, D) under one difficulty leaves the unexpired
\* entry saved for (R, D) under another difficulty retrievable:
\* get_exact_questions(R, D, d1) still returns the earlier payload and
\* get_exact_questions(R, D, d2) returns the new one.
C25_DifficultyKeyedSaves ==
  (/\ call.op = "save_questions"
   /\ Replaced # 0
   /\ before.heap[Replaced].difficulty # call.difficulty
   /\ ~ is_expired(before.heap[Replaced], now))
  => /\ get_exact_questions(cache, call.job_role, call.job_description,
                            before.heap[Replaced].difficulty, now).ret
          = Some(before.heap[Replaced].questions)
     /\ get_exact_questions(cache, call.job_role, call.job_description,
                            call.difficulty, now).ret
          = call.questions

\* exact_hits + similar_hits + cache_misses of cache c
Counted(c) == c.stats.exact_hits + c.stats.similar_hits + c.stats.cache_misses

\* C26: in runs of save_questions and get_smart_response calls with clock
\* advances, each get_smart_response call raises exactly one of exact_hits,
\* similar_hits and cache_misses, by exactly 1, so that their sum equals
\* total_requests in every state.
C26_AccountingPartition ==
  /\ Counted(cache) = cache.stats.total_requests
  /\ call.op = "get_smart_response"
     => /\ Counted(cache) = Counted(before) + 1
        /\ cache.stats.exact_hits >= before.stats.exact_hits
        /\ cache.stats.similar_hits >= before.stats.similar_hits
        /\ cache.stats.cache_misses >= before.stats.cache_misses

\* C27: after any sequence of get_smart_response, get_exact_analysis,
\* save_questions, save_analysis, record_api_call and stats_summary calls,
\* exact_hits + similar_hits <= total_requests, and the hit rate
\* stats_summary reports is at most 100%.
C27_HitRateFraction ==
  /\ cache.stats.exact_hits + cache.stats.similar_hits <= cache.stats.total_requests
  /\ call.op = "stats_summary" => result.summary.cache_hit_rate <= 1000

\* C28: when save_questions returns, the pool holds an item for the entry
\* just saved, whatever the pool held and whatever the clock readings of the
\* saves were.
C28_NewestSurvives ==
  call.op = "save_questions"
  => \E i \in 1..Len(cache.similar_pool) :
       /\ cache.similar_pool[i].fingerprint = result.key
       /\ cache.similar_pool[i].entry = Len(cache.heap)

\* C29: the question map holds at most max_cache_size entries, and every
\* entry it holds has its item in the similarity pool: an entry evicted from
\* the pool is not stored in the map.
C29_MapBounded ==
  /\ Cardinality(DOMAIN cache.questions_cache) <= cache.max_cache_size
  /\ \A k \in DOMAIN cache.questions_cache :
       \E i \in 1..Len(cache.similar_pool) :
         cache.similar_pool[i].entry = cache.questions_cache[k]

\* the call of caller L made alone on the cache self: the cache it leaves
\* and what it returns
RunCall(self, L, t) ==
  IF L.op = "get_exact_questions"
  THEN [ self |-> get_exact_questions(self, L.job_role, L.job_description,
                                      L.difficulty, t).self,
         ret |-> get_exact_questions(self, L.job_role, L.job_description,
                                     L.difficulty, t).ret,
         score |-> 0 ]
  ELSE IF L.op = "get_similar_questions"
  THEN [ self |-> get_similar_questions(self, L.job_role, L.job_description,
                                        L.difficulty, L.threshold, t).self,
         ret |-> get_similar_questions(self, L.job_role, L.job_description,
                                       L.difficulty, L.threshold, t).ret,
         score |-> get_similar_questions(self, L.job_role, L.job_description,
                                         L.difficulty, L.threshold, t).score ]
  ELSE [self |-> _cleanup_expired(self, t), ret |-> None, score |-> 0]

\* the cache and the two results are those of the call of caller first made
\* alone, then the call of caller second made alone
SerialOrder(first, second, afterFirst) ==
  /\ callers[first].ret = afterFirst.ret
  /\ callers[first].score = afterFirst.score
  /\ callers[second].ret = RunCall(afterFirst.self, callers[second], now).ret
  /\ callers[second].score = RunCall(afterFirst.self, callers[second], now).score
  /\ cache = RunCall(afterFirst.self, callers[second], now).self

BothDone == \A c \in Threads : callers[c].pc = "done"

\* C30: when two callers have run get_exact_questions, get_similar_questions
\* or _cleanup_expired at the same time, their lines interleaved in any
\* order, neither call has raised, and the cache they leave (access counts,
\* counters, map, pool) and the values they returned are those of the two
\* calls made one after the other, in one of the two orders.
C30_LookupsAtomic ==
  BothDone =>
    /\ \A c \in Threads : callers[c].raised = ""
    /\ \/ SerialOrder(1, 2, RunCall(before, callers[1], now))
       \/ SerialOrder(2, 1, RunCall(before, callers[2], now))
====
